---- MODULE Spec2Model ----
(***************************************************************************)
(* Model of the traceback CLI analysis engine (cli/tracebackapp/tools):    *)
(* the Analyzer loop, its three local tools, the RateLimitState of the     *)
(* Claude client and the static call-graph resolver of AnalysisTools.      *)
(*                                                                         *)
(* Python strings are sequences of one-character strings, so that the      *)
(* regular expressions and slices of the source are computed, not assumed. *)
(***************************************************************************)
EXTENDS Integers, Sequences, FiniteSets, TLC

VARIABLES
    pc,                \* where the thread of Analyzer.analyze is: idle, running,
                       \* sleeping, requesting, cooling (asking, with a gateway of
                       \* the caller's), answered, displaying, returned, raised
    state,             \* RUNNING or the terminal state analyze ended in
    current_findings,  \* context.current_findings
    initial_findings,  \* the findings of the context analyze was started with
    display_callback,  \* TRUE when a display callback was supplied
    display,           \* the messages handed to the display callback, in order
    oracle_calls,      \* number of calls of claude.analyze_error in the session
    oracle_kind,       \* what the API answers in this session: anything ("free") or
                       \* requests for the code of app.py ("code"); or which gateway
                       \* of the caller's the Analyzer was given
    last_response,     \* the response of the latest oracle call
    executed,          \* the tools analyze has run, in order, each with the
                       \* number of findings it appended
    branch,            \* the branch of analyze in progress and its steps still to take
    files,             \* the workspace on disk, in os.walk order
    code_block,        \* the latest call of AnalysisTools.get_code_block and its result
    rl,                \* the RateLimitState dataclass
    now,               \* time.time(), in ticks of 100 ms
    rl_pc,             \* position of RateLimitState.wait_if_needed
    rl_wait,           \* the wait_time of the sleep in progress
    rl_naps,           \* the time.sleep durations of the latest wait_if_needed call
    rl_call,           \* the RateLimitState and the time that call started with
    pyws,              \* the Python workspace the resolver scans
    trace_query,       \* the arguments of the latest get_stack_trace call
    trace,             \* the result of the latest get_stack_trace call
    trace_pc,          \* how that call ended: idle, returned, raised
    page_ctx,          \* the paging fields of the AnalysisContext
    page_op,           \* the latest operation on the pages and its result
    analyzed_pages,    \* ClaudeClient.analyzed_pages
    client_call,       \* the latest ClaudeClient.analyze_logs call and its outcome
    translation,       \* the latest Analyzer._translate_path call and its result
    construction,      \* ~/.traceback/api_key and what was constructed with it
    clients,           \* the ClaudeClients of the process, each with its RateLimitState
    api_calls,         \* the requests analyze_error has made to the API: which
                       \* client, sent when; a session records its request when
                       \* messages.create is over
    memo               \* the current_analysis the latest oracle call was given and returned

analyzer_vars == <<pc, state, current_findings, initial_findings, display_callback,
                   display, oracle_calls, oracle_kind, last_response, executed, branch>>
rate_vars == <<rl, now, rl_pc, rl_wait, rl_naps, rl_call>>
trace_vars == <<pyws, trace_query, trace, trace_pc>>
page_vars == <<page_ctx, page_op>>
client_vars == <<analyzed_pages, client_call>>
call_vars == <<translation, construction, clients, api_calls>>
flow_vars == <<memo>>
vars == <<analyzer_vars, files, code_block, rate_vars, trace_vars, page_vars, client_vars,
          call_vars, flow_vars>>

----------------------------------------------------------------------------
(* Characters and string helpers *)

LowerSeq == <<"a", "b", "c", "d", "e", "f", "g", "h", "i", "j", "k", "l", "m",
              "n", "o", "p", "q", "r", "s", "t", "u", "v", "w", "x", "y", "z">>
UpperSeq == <<"A", "B", "C", "D", "E", "F", "G", "H", "I", "J", "K", "L", "M",
              "N", "O", "P", "Q", "R", "S", "T", "U", "V", "W", "X", "Y", "Z">>
DigitSeq == <<"0", "1", "2", "3", "4", "5", "6", "7", "8", "9">>

Range(s) == {s[i] : i \in 1..Len(s)}
Digit == Range(DigitSeq)
Alnum == Range(LowerSeq) \cup Range(UpperSeq) \cup Digit
\* The alphabet of the model is Latin-1 (U+0000 to U+00FF); the classes below are
\* those of Python 3 str methods and str patterns on it.
Latin1UpperSeq == <<"À", "Á", "Â", "Ã", "Ä", "Å", "Æ", "Ç", "È", "É", "Ê", "Ë", "Ì", "Í", "Î", "Ï",
                    "Ð", "Ñ", "Ò", "Ó", "Ô", "Õ", "Ö", "Ø", "Ù", "Ú", "Û", "Ü", "Ý", "Þ">>
Latin1LowerSeq == <<"à", "á", "â", "ã", "ä", "å", "æ", "ç", "è", "é", "ê", "ë", "ì", "í", "î", "ï",
                    "ð", "ñ", "ò", "ó", "ô", "õ", "ö", "ø", "ù", "ú", "û", "ü", "ý", "þ">>
\* the characters str.isalnum() is true of that have no case pair above
Latin1Other == {"ª", "²", "³", "µ", "¹", "º", "¼", "½", "¾", "ß", "ÿ"}
\* \w of a str pattern: [a-zA-Z0-9_] and every character str.isalnum() is true of
Word == Alnum \cup {"_"} \cup Range(Latin1UpperSeq) \cup Range(Latin1LowerSeq) \cup Latin1Other
\* the characters str.isspace() is true of: space, \t \n \r \f, \x0b, \x1c to \x1f,
\* \x85 and the no-break space \xa0
Whitespace == {" ", "\t", "\n", "\r", "\f", "", "", "", "", "", "", " "}

Min(a, b) == IF a < b THEN a ELSE b
Max(a, b) == IF a > b THEN a ELSE b

\* s[start:end] of Python for 0 <= start and 0 <= end: empty when start >= end.
Slice(s, start, end) == SubSeq(s, start + 1, Min(end, Len(s)))

StartsWith(s, p) == Len(s) >= Len(p) /\ SubSeq(s, 1, Len(p)) = p

\* needle in hay
Contains(hay, needle) ==
    \E i \in 1..(Len(hay) - Len(needle) + 1) : SubSeq(hay, i, i + Len(needle) - 1) = needle

\* str.lower()
LowerChar(c) ==
    LET upper == UpperSeq \o Latin1UpperSeq
        lowered == LowerSeq \o Latin1LowerSeq
    IN IF c \in Range(upper)
       THEN lowered[CHOOSE i \in 1..Len(upper) : upper[i] = c]
       ELSE c
lower(s) == [i \in 1..Len(s) |-> LowerChar(s[i])]

\* str.strip()
RECURSIVE lstrip(_, _)
lstrip(s, chars) ==
    IF s # <<>> /\ Head(s) \in chars THEN lstrip(Tail(s), chars) ELSE s
RECURSIVE rstrip(_, _)
rstrip(s, chars) ==
    IF s # <<>> /\ s[Len(s)] \in chars THEN rstrip(SubSeq(s, 1, Len(s) - 1), chars) ELSE s
strip(s) == rstrip(lstrip(s, Whitespace), Whitespace)

\* s.replace(old, '')
RECURSIVE RemoveAll(_, _)
RemoveAll(s, old) ==
    IF s = <<>> THEN <<>>
    ELSE IF StartsWith(s, old) THEN RemoveAll(SubSeq(s, Len(old) + 1, Len(s)), old)
    ELSE <<Head(s)>> \o RemoveAll(Tail(s), old)

\* int(s) for a string of decimal digits
DigitVal(c) == (CHOOSE i \in 1..Len(DigitSeq) : DigitSeq[i] = c) - 1
RECURSIVE int(_)
int(s) == IF s = <<>> THEN 0 ELSE 10 * int(SubSeq(s, 1, Len(s) - 1)) + DigitVal(s[Len(s)])

\* str(n) for n >= 0
RECURSIVE str(_)
str(n) == IF n < 10 THEN <<DigitSeq[n + 1]>> ELSE str(n \div 10) \o <<DigitSeq[(n % 10) + 1]>>

\* index just past the longest run of characters of cls that starts at i
RECURSIVE RunEnd(_, _, _)
RunEnd(s, i, cls) == IF i <= Len(s) /\ s[i] \in cls THEN RunEnd(s, i + 1, cls) ELSE i

\* re.findall(r'[cls]+', s)
RECURSIVE FindRuns(_, _, _)
FindRuns(s, i, cls) ==
    IF i > Len(s) THEN <<>>
    ELSE IF s[i] \in cls
         THEN <<SubSeq(s, i, RunEnd(s, i, cls) - 1)>> \o FindRuns(s, RunEnd(s, i, cls), cls)
         ELSE FindRuns(s, i + 1, cls)

----------------------------------------------------------------------------
(* The workspace on disk *)

workspace_root == <<"/", "w">>

IsAbs(p) == p # <<>> /\ Head(p) = "/"
\* os.path.join(a, b)
join(a, b) == IF IsAbs(b) THEN b ELSE a \o <<"/">> \o b
\* the file name os.walk yields for a workspace-relative path
RECURSIVE basename(_)
basename(p) == IF \E i \in 1..Len(p) : p[i] = "/"
               THEN basename(SubSeq(p, (CHOOSE i \in 1..Len(p) : p[i] = "/") + 1, Len(p)))
               ELSE p

\* A file: its path relative to the workspace root, its number of lines, its
\* size in characters, and whether open()/read() in text mode succeeds.
File(path, nlines, size, readable) ==
    [path |-> path, nlines |-> nlines, size |-> size, readable |-> readable]

\* f.readlines(): line i of the file stands for itself
readlines(f) == [i \in 1..f.nlines |-> i]

\* s.split(sep)
RECURSIVE split(_, _)
split(s, sep) ==
    IF sep \notin Range(s) THEN <<s>>
    ELSE LET i == CHOOSE k \in 1..Len(s) : s[k] = sep /\ \A j \in 1..(k - 1) : s[j] # sep
         IN <<SubSeq(s, 1, i - 1)>> \o split(SubSeq(s, i + 1, Len(s)), sep)

\* A directory or a file of the machine is the sequence of names that leads to
\* it from /.  The machine holds the workspace and nothing else: the files of
\* the workspace, the directories they lie in, and the directories down to the
\* workspace root.
names(path) == SelectSeq(split(path, "/"), LAMBDA name : name # <<>>)
root_dir == names(workspace_root)
file_entries(paths) == {root_dir \o names(p) : p \in paths}
dir_entries(paths) ==
    {SubSeq(root_dir, 1, k) : k \in 0..Len(root_dir)}
        \cup UNION {{SubSeq(e, 1, k) : k \in Len(root_dir)..(Len(e) - 1)} :
                        e \in file_entries(paths)}
NoEntry == << <<>> >>

\* path resolution, name by name: an empty name and . stay, .. goes up (and
\* stays at /), a name goes down into a directory that holds it
RECURSIVE walk_path(_, _, _)
walk_path(paths, parts, at) ==
    IF parts = <<>> THEN at
    ELSE IF at \notin dir_entries(paths) THEN NoEntry
    ELSE LET name == Head(parts)
         IN IF name = <<>> \/ name = <<".">> THEN walk_path(paths, Tail(parts), at)
            ELSE IF name = <<".", ".">>
                 THEN walk_path(paths, Tail(parts), SubSeq(at, 1, Len(at) - 1))
            ELSE IF Append(at, name) \in file_entries(paths) \cup dir_entries(paths)
                 THEN walk_path(paths, Tail(parts), Append(at, name))
            ELSE NoEntry

\* what a path names among the files paths: '' names nothing, and a relative
\* path starts at the working directory, which is the workspace root
\* (workspace_root or os.getcwd())
entry(paths, path) ==
    IF path = <<>> THEN NoEntry
    ELSE walk_path(paths, split(join(workspace_root, path), "/"), <<>>)

disk_paths == {files[i].path : i \in 1..Len(files)}

\* os.path.exists(path): true of a file and of a directory, however spelled
exists(path) == entry(disk_paths, path) # NoEntry
\* open(path) raises IsADirectoryError
isdir(path) == entry(disk_paths, path) \in dir_entries(disk_paths)
\* the file open(path) opens, for a path that names a file
FileAt(path) ==
    files[CHOOSE i \in 1..Len(files) :
              root_dir \o names(files[i].path) = entry(disk_paths, path)]

\* the spellings of a workspace path a caller may query: as os.walk spells it,
\* from the current directory, absolute, and through a directory and back
Spellings(path) ==
    { path,
      <<".", "/">> \o path,
      workspace_root \o <<"/">> \o path,
      <<"s", "u", "b", "/", ".", ".", "/">> \o path }

----------------------------------------------------------------------------
(* Findings *)

\* A Finding is a Python dict.  A key a dict does not carry is modelled by the
\* empty value of the field; tool_executed carries its own presence flag,
\* because analyze compares it with a dict that is always present.
NoTool == [present |-> FALSE, type |-> "", context |-> <<>>]
Tool(type, context) == [present |-> TRUE, type |-> type, context |-> context]

Result(kind, n, m, path, line, code, error) ==
    [kind |-> kind, n |-> n, m |-> m, path |-> path, line |-> line, code |-> code,
     error |-> error]

Finding(type, context, result, file_contents, local_path) ==
    [type |-> type, context |-> context, result |-> result,
     file_contents |-> file_contents, local_path |-> local_path,
     tool_executed |-> NoTool]

NoFinding == Finding("", <<>>, Result("none", 0, 0, <<>>, 0, <<>>, ""), <<>>, <<>>)

\* what a tool or a branch of analyze does that the rest of the process can
\* see: it calls the display callback with a message, or it appends a finding
\* to context.current_findings
Display(message) == [do |-> "display_callback", message |-> message, finding |-> NoFinding]
AppendFinding(finding) == [do |-> "append", message |-> "", finding |-> finding]

IsDisplay(step) == step.do = "display_callback"
IsAppend(step) == step.do = "append"

\* the findings a run of steps appends and the messages it displays, in order
appended(steps) ==
    LET appends == SelectSeq(steps, IsAppend)
    IN [i \in 1..Len(appends) |-> appends[i].finding]
displayed(steps) ==
    LET calls == SelectSeq(steps, IsDisplay)
    IN [i \in 1..Len(calls) |-> calls[i].message]

\* what a tool called on the list findings does, step by step, with the list
\* it leaves and the messages it displays
ToolOutcome(findings, steps) ==
    [findings |-> findings \o appended(steps), shown |-> displayed(steps), steps |-> steps]

----------------------------------------------------------------------------
(* Analyzer._fetch_files *)

PatternMinLen == 3
MaxPatterns == 3
MaxFilesPerPattern == 3
MaxContentChars == 2000

\* [\w\-\.\/]
FilePatternChars == Word \cup {"-", ".", "/"}

\* patterns = re.findall(...); keep those longer than 3; the loop takes the first 3
search_patterns(search_context) ==
    LET all == FindRuns(search_context, 1, FilePatternChars)
        long == SelectSeq(all, LAMBDA p : Len(p) > PatternMinLen)
    IN SubSeq(long, 1, Min(MaxPatterns, Len(long)))

matching_files(pattern) ==
    SelectSeq(files, LAMBDA f : Contains(lower(basename(f.path)), lower(pattern)))

\* the files of one pattern whose content was read (at most the first 3 matches)
examined_files(pattern) ==
    LET matching == matching_files(pattern)
    IN SelectSeq(SubSeq(matching, 1, Min(MaxFilesPerPattern, Len(matching))),
                 LAMBDA f : f.readable)

read_errors(pattern) ==
    LET matching == matching_files(pattern)
        tried == SubSeq(matching, 1, Min(MaxFilesPerPattern, Len(matching)))
    IN [i \in 1..(Len(tried) - Len(examined_files(pattern))) |-> "error_reading_file"]

files_finding(pattern) ==
    LET read == examined_files(pattern)
    IN Finding("fetch_files", pattern,
               Result("found_files", Len(matching_files(pattern)), Len(read), <<>>, 0, <<>>, ""),
               [i \in 1..Len(read) |->
                    [path |-> read[i].path, content |-> Min(read[i].size, MaxContentChars)]],
               <<>>)

\* for pattern in patterns[:3]: the read errors are displayed as they happen,
\* then the finding of the pattern is appended
RECURSIVE files_loop(_)
files_loop(patterns) ==
    IF patterns = <<>> THEN <<>>
    ELSE [i \in 1..Len(read_errors(Head(patterns))) |->
              Display(read_errors(Head(patterns))[i])]
         \o <<AppendFinding(files_finding(Head(patterns)))>>
         \o files_loop(Tail(patterns))

_fetch_files(findings, search_context) ==
    ToolOutcome(findings,
                <<Display("searching_files")>>
                \o files_loop(search_patterns(search_context))
                \o <<Display("files_found")>>)

----------------------------------------------------------------------------
(* Analyzer._fetch_logs *)

_fetch_logs(findings, log_context) ==
    ToolOutcome(
        findings,
        << Display("log_requested"),
           Display("using_initial_input"),
           AppendFinding(Finding("fetch_logs", log_context,
                                 Result("using_initial_input", 0, 0, <<>>, 0, <<>>, ""),
                                 <<>>, <<>>)) >>)

----------------------------------------------------------------------------
(* Analyzer._translate_path *)

GemsPrefix == <<"/", "u", "s", "r", "/", "l", "o", "c", "a", "l", "/", "b", "u", "n",
                "d", "l", "e", "/", "g", "e", "m", "s", "/">>
OptPrefix == <<"/", "o", "p", "t", "/">>
MastodonPrefix == <<"/", "o", "p", "t", "/", "m", "a", "s", "t", "o", "d", "o", "n", "/">>
AppPrefix == <<"/", "a", "p", "p", "/">>

\* The machine has no RVM gemset and the workspace no vendor/bundle directory:
\* rvm_gemset_path is None and both globs of the gem branch match nothing.
gem_paths(production_path) == <<>>

\* \d+\.\d+\.\d+ matches at index i of g
VersionAt(g, i) ==
    LET a == RunEnd(g, i, Digit)
        b == RunEnd(g, a + 1, Digit)
        c == RunEnd(g, b + 1, Digit)
    IN /\ a > i /\ a <= Len(g) /\ g[a] = "."
       /\ b > a + 1 /\ b <= Len(g) /\ g[b] = "."
       /\ c > b + 1

\* re.match(r'([^-]+(?:-[^-]+)*)-\d+\.\d+\.\d+', gem_with_version) is not None
base_gem_name_matches(g) ==
    \E k \in 2..Len(g) :
        /\ g[k] = "-"
        /\ g[1] # "-"
        /\ g[k - 1] # "-"
        /\ \A j \in 1..(k - 2) : ~(g[j] = "-" /\ g[j + 1] = "-")
        /\ VersionAt(g, k + 1)

\* The gem branch up to the vendored glob: the path names a gem with a version
\* and a file inside it.  glob is imported only inside "if self.rvm_gemset_path",
\* so with rvm_gemset_path None glob.glob raises UnboundLocalError.
_translate_path_raises(production_path) ==
    LET p == strip(production_path)
        gem_path == RemoveAll(p, GemsPrefix)
        slash == {i \in 1..Len(gem_path) : gem_path[i] = "/"}
    IN /\ StartsWith(p, GemsPrefix)
       /\ slash # {}
       /\ base_gem_name_matches(
              SubSeq(gem_path, 1, (CHOOSE i \in slash : \A j \in slash : i <= j) - 1))

_translate_path(production_path) ==
    LET p == strip(production_path)
        translated ==
            IF StartsWith(p, GemsPrefix) THEN gem_paths(p)
            ELSE IF StartsWith(p, OptPrefix)
                 THEN <<join(workspace_root, RemoveAll(p, MastodonPrefix))>>
            ELSE IF StartsWith(p, AppPrefix)
                 THEN <<join(workspace_root, lstrip(p, Range(AppPrefix)))>>
            ELSE <<>>
        fallback == IF IsAbs(p) THEN p ELSE join(workspace_root, p)
    IN Append(translated, fallback)

----------------------------------------------------------------------------
(* Analyzer._fetch_code *)

context_lines == 20

CodePathChars == Alnum \cup {"_", "-", ".", "/"}

NoMatch == [ok |-> FALSE, file_path |-> <<>>, line_str |-> <<>>, end |-> 0]

\* One match of r'([a-zA-Z0-9_\-\.\/]+\.[a-zA-Z0-9]+):?(\d+)?' that starts at i:
\* the greedy path part backtracks to the last dot followed by an extension.
MatchAt(s, i) ==
    LET dots == {k \in (i + 1)..(RunEnd(s, i, CodePathChars) - 1) :
                    s[k] = "." /\ k + 1 <= Len(s) /\ s[k + 1] \in Alnum}
    IN IF dots = {} THEN NoMatch
       ELSE LET k == CHOOSE d \in dots : \A e \in dots : e <= d
                x == RunEnd(s, k + 1, Alnum)
                c == IF x <= Len(s) /\ s[x] = ":" THEN x + 1 ELSE x
                d == RunEnd(s, c, Digit)
            IN [ok |-> TRUE, file_path |-> SubSeq(s, i, x - 1),
                line_str |-> SubSeq(s, c, d - 1), end |-> d]

\* re.findall(file_pattern, code_context)
RECURSIVE file_references(_, _)
file_references(s, i) ==
    LET starts == {j \in i..Len(s) : MatchAt(s, j).ok}
    IN IF starts = {} THEN <<>>
       ELSE LET m == MatchAt(s, CHOOSE j \in starts : \A k \in starts : j <= k)
            IN <<m>> \o file_references(s, m.end)

\* lines[start:end] around line_number (lines 863-866)
code_window(lines, line_number) ==
    Slice(lines, Max(0, line_number - context_lines),
          Min(Len(lines), line_number + context_lines + 1))

\* the body of the loop over the matches, for one match
code_finding(code_context, m) ==
    LET line_number == IF m.line_str # <<>> THEN int(m.line_str) ELSE 1
        found == SelectSeq(_translate_path(m.file_path), exists)
    IN IF _translate_path_raises(m.file_path)
       THEN [finding |-> Finding("fetch_code", code_context,
                                 Result("error_fetching_code", 0, 0, m.file_path, 0, <<>>,
                                        "UnboundLocalError"), <<>>, <<>>),
             shown |-> "error_fetching_code"]
       ELSE IF found = <<>>
       THEN [finding |-> Finding("fetch_code", code_context,
                                 Result("error_fetching_code", 0, 0, m.file_path, 0, <<>>,
                                        "FileNotFoundError"), <<>>, <<>>),
             shown |-> "error_fetching_code"]
       ELSE IF isdir(found[1])
       THEN [finding |-> Finding("fetch_code", code_context,
                                 Result("error_fetching_code", 0, 0, m.file_path, 0, <<>>,
                                        "IsADirectoryError"), <<>>, <<>>),
             shown |-> "error_fetching_code"]
       ELSE IF ~FileAt(found[1]).readable
       THEN [finding |-> Finding("fetch_code", code_context,
                                 Result("error_fetching_code", 0, 0, m.file_path, 0, <<>>,
                                        "read error"), <<>>, <<>>),
             shown |-> "error_fetching_code"]
       ELSE [finding |-> Finding("fetch_code", m.file_path \o <<":">> \o str(line_number),
                                 Result("code", 0, 0, m.file_path, line_number,
                                        code_window(readlines(FileAt(found[1])), line_number),
                                        ""),
                                 <<>>, found[1]),
             shown |-> "fetched_code"]

\* for file_path, line_str in matches: the finding of the match is appended,
\* then the code or the error is displayed
RECURSIVE code_loop(_, _)
code_loop(matches, code_context) ==
    IF matches = <<>> THEN <<>>
    ELSE << AppendFinding(code_finding(code_context, Head(matches)).finding),
            Display(code_finding(code_context, Head(matches)).shown) >>
         \o code_loop(Tail(matches), code_context)

_fetch_code(findings, code_context) ==
    LET matches == file_references(code_context, 1)
    IN IF matches = <<>>
       THEN ToolOutcome(
                findings,
                << Display("fetching_code"),
                   Display("no_file_references"),
                   AppendFinding(Finding("fetch_code", code_context,
                                         Result("no_file_references", 0, 0, <<>>, 0, <<>>, ""),
                                         <<>>, <<>>)) >>)
       ELSE ToolOutcome(findings,
                        <<Display("fetching_code")>> \o code_loop(matches, code_context))

----------------------------------------------------------------------------
(* AnalysisTools.get_code_block *)

\* lines[start_line:end_line] with its "Lines first-last" header
get_code_block(file_path, line_number, around) ==
    LET path == join(workspace_root, file_path)
    IN IF ~exists(path)
       THEN [kind |-> "file_not_found", first |-> 0, last |-> 0, code |-> <<>>]
       ELSE IF isdir(path) \/ ~FileAt(path).readable
       THEN [kind |-> "error_reading_file", first |-> 0, last |-> 0, code |-> <<>>]
       ELSE LET lines == readlines(FileAt(path))
                start_line == Max(0, line_number - around - 1)
                end_line == Min(Len(lines), line_number + around)
            IN [kind |-> "code", first |-> start_line + 1, last |-> end_line,
                code |-> Slice(lines, start_line, end_line)]

----------------------------------------------------------------------------
(* AnalysisTools.get_callers and get_stack_trace *)

\* A Python source file as ast.parse sees it: its function definitions in
\* ast.walk order, its call expressions in visiting order, and whether it parses.
\* A FunctionDef: node.lineno is the line of "def", and first the line its
\* subtree starts on, which is the line of its first decorator when it has one.
PyDecoratedDef(name, first, lineno, end_lineno) ==
    [name |-> name, first |-> first, lineno |-> lineno, end_lineno |-> end_lineno]
PyDef(name, lineno, end_lineno) == PyDecoratedDef(name, lineno, lineno, end_lineno)
\* a call expression: node.func is an ast.Name (f()) or an ast.Attribute (obj.f())
PyCall(func, lineno) == [func_type |-> "Name", func |-> func, lineno |-> lineno]
PyAttributeCall(attr, lineno) == [func_type |-> "Attribute", func |-> attr, lineno |-> lineno]
PyFile(path, nlines, parses, defs, calls) ==
    [path |-> path, nlines |-> nlines, parses |-> parses, defs |-> defs, calls |-> calls]

CodeLocation(file_path, line_number, function_name) ==
    [file_path |-> file_path, line_number |-> line_number, function_name |-> function_name]
StackTraceEntry(code_location, context) ==
    [code_location |-> code_location, context |-> context]

\* the first FunctionDef of ast.walk whose line range holds the line, or ""
target_func(file, line_number) ==
    LET hits == SelectSeq(file.defs,
                          LAMBDA d : d.lineno <= line_number /\ line_number <= d.end_lineno)
    IN IF hits = <<>> THEN "" ELSE hits[1].name

\* FunctionCallVisitor.current_function when it visits a call on this line:
\* the name of the innermost FunctionDef whose subtree (decorators, arguments
\* and body) holds the call, or ""
current_function(file, lineno) ==
    LET hits == {i \in 1..Len(file.defs) :
                    file.defs[i].first <= lineno /\ lineno <= file.defs[i].end_lineno}
    IN IF hits = {} THEN ""
       ELSE file.defs[CHOOSE i \in hits :
                        \A j \in hits : file.defs[j].first <= file.defs[i].first].name

\* visitor.calls of one file, as CodeLocations
calls_in(file, target) ==
    LET found == SelectSeq(file.calls,
                           LAMBDA c : /\ c.func_type = "Name"
                                      /\ c.func = target
                                      /\ current_function(file, c.lineno) # "")
    IN [i \in 1..Len(found) |->
            CodeLocation(file.path, found[i].lineno, current_function(file, found[i].lineno))]

RECURSIVE walk_callers(_, _)
walk_callers(pyfiles, target) ==
    IF pyfiles = <<>> THEN <<>>
    ELSE (IF Head(pyfiles).parses THEN calls_in(Head(pyfiles), target) ELSE <<>>)
             \o walk_callers(Tail(pyfiles), target)

\* open(os.path.join(self.workspace_root, code_location.file_path)) opens the
\* file the path names, however it is spelled; every exception gives []
get_callers(code_location) ==
    LET pypaths == {pyws[i].path : i \in 1..Len(pyws)}
        opened == entry(pypaths, join(workspace_root, code_location.file_path))
        here == SelectSeq(pyws, LAMBDA f : root_dir \o names(f.path) = opened)
    IN IF here = <<>> \/ ~here[1].parses THEN <<>>
       ELSE IF target_func(here[1], code_location.line_number) = "" THEN <<>>
       ELSE walk_callers(pyws, target_func(here[1], code_location.line_number))

TraceContextLines == 2

location_key(location) == location.file_path \o <<":">> \o str(location.line_number)

extend_trace_outermost_last(caller_trace, current_entry) ==
    <<current_entry>> \o caller_trace

\* trace + [current_entry]: the caller's trace, then the current entry
extend_trace(caller_trace, current_entry) == Append(caller_trace, current_entry)

depth_reached_after_the_limit(depth, max_depth) == depth > max_depth

\* if depth >= max_depth: the exploration goes no further
depth_reached(depth, max_depth) == depth >= max_depth

visited_add_after_the_first(visited, caller_key) ==
    IF visited = {} THEN {<<>>} ELSE visited \cup {caller_key}

\* visited.add(caller_key) for the recursive call; visited.remove(caller_key)
\* after it leaves the caller's own set as it was
visited_add(visited, caller_key) == visited \cup {caller_key}

RECURSIVE build_stack_trace(_, _, _, _)
RECURSIVE caller_traces(_, _, _, _, _)

\* the loop over the callers: the traces of each caller not yet on the path,
\* each extended by the current entry
caller_traces(callers, current_entry, depth, visited, max_depth) ==
    IF callers = <<>> THEN <<>>
    ELSE LET caller == Head(callers)
             rest == caller_traces(Tail(callers), current_entry, depth, visited, max_depth)
         IN IF location_key(caller) \in visited THEN rest
            ELSE LET sub == build_stack_trace(caller, depth + 1,
                                              visited_add(visited, location_key(caller)),
                                              max_depth)
                 IN [i \in 1..Len(sub) |-> extend_trace(sub[i], current_entry)] \o rest

build_stack_trace(location, depth, visited, max_depth) ==
    IF depth_reached(depth, max_depth) THEN << <<>> >>
    ELSE LET current_entry ==
                 StackTraceEntry(location,
                                 get_code_block(location.file_path, location.line_number,
                                                TraceContextLines))
             callers == get_callers(location)
             all_traces == caller_traces(callers, current_entry, depth, visited, max_depth)
         IN IF callers = <<>> \/ all_traces = <<>> THEN << <<current_entry>> >>
            ELSE all_traces

\* max(traces, key=len) runs over the traces in order and keeps the one it
\* holds unless the next is strictly longer
RECURSIVE max_key_len(_, _)
max_key_len(best, traces) ==
    IF traces = <<>> THEN best
    ELSE max_key_len(IF Len(Head(traces)) > Len(best) THEN Head(traces) ELSE best,
                     Tail(traces))

longest_last_of_ties(traces) ==
    traces[CHOOSE i \in 1..Len(traces) :
              /\ \A j \in 1..Len(traces) : Len(traces[j]) <= Len(traces[i])
              /\ \A j \in (i + 1)..Len(traces) : Len(traces[j]) < Len(traces[i])]

longest(traces) == max_key_len(Head(traces), Tail(traces))

get_stack_trace(code_location, max_depth) ==
    longest(build_stack_trace(code_location, 0, {}, max_depth))

\* the context of the entry the exception handler returns
ErrorBuildingStackTrace ==
    [kind |-> "error_building_stack_trace", first |-> 0, last |-> 0, code |-> <<>>]

\* depth >= max_depth raises TypeError when max_depth is not a number
\* (max_depth_type is type(max_depth).__name__)
build_stack_trace_raises(max_depth_type) == max_depth_type # "int"

except_Exception_missing(code_location) == [pc |-> "raised", trace |-> <<>>]

\* except Exception: the call returns one entry for the queried location
except_Exception(code_location) ==
    [pc |-> "returned",
     trace |-> <<StackTraceEntry(code_location, ErrorBuildingStackTrace)>>]

\* one call of get_stack_trace with its try block: how it ends and its result
get_stack_trace_call(code_location, max_depth_type, max_depth) ==
    IF build_stack_trace_raises(max_depth_type)
    THEN except_Exception(code_location)
    ELSE [pc |-> "returned", trace |-> get_stack_trace(code_location, max_depth)]

----------------------------------------------------------------------------
(* RateLimitState of the Claude client; time is counted in ticks of 100 ms *)

DefaultRequests == 50
DefaultTokens == 20000
\* the 0.2 s minimum spacing between requests, in ticks
MinSpacing == 2

\* time.time() when the client is constructed, and how long the model runs
StartTime == 10
Horizon == 6
MaxTime == StartTime + Horizon
\* how far ahead a reset header points, and how late time.sleep may wake
MaxResetAhead == 3
MaxOversleep == 1

\* RateLimitState(): the dataclass defaults
NewRateLimitState ==
    [last_request_time |-> 0, requests_remaining |-> DefaultRequests,
     tokens_remaining |-> DefaultTokens, has_reset |-> FALSE, reset_time |-> 0]

\* the rate-limit headers a response received at time t can carry
Headers(t) ==
    { [has_requests |-> hq, requests |-> IF hq THEN q ELSE 0,
       has_tokens |-> ht, tokens |-> IF ht THEN 7 ELSE 0,
       has_reset |-> hr, reset |-> IF hr THEN t + d ELSE 0] :
         hq \in BOOLEAN, q \in {0, 1}, ht \in BOOLEAN, hr \in BOOLEAN,
         d \in -1..MaxResetAhead }

\* the rate-limit headers of the response to a request of a session or of a
\* thread, received at time t
ClientHeaders(t) ==
    { [has_requests |-> TRUE, requests |-> q, has_tokens |-> FALSE, tokens |-> 0,
       has_reset |-> hr, reset |-> IF hr THEN t + MinSpacing ELSE 0] :
         q \in {0, 1}, hr \in BOOLEAN }

update_from_headers(r, headers, t) ==
    [last_request_time |-> t,
     requests_remaining |-> IF headers.has_requests THEN headers.requests
                            ELSE r.requests_remaining,
     tokens_remaining |-> IF headers.has_tokens THEN headers.tokens
                          ELSE r.tokens_remaining,
     has_reset |-> headers.has_reset \/ r.has_reset,
     reset_time |-> IF headers.has_reset THEN headers.reset ELSE r.reset_time]

\* `self.reset_time and current_time < self.reset_time`: None and 0.0 are falsy
before_reset(r, t) == r.has_reset /\ r.reset_time # 0 /\ t < r.reset_time

\* should_rate_limit without the minimum spacing
should_rate_limit_no_spacing(r, t) ==
    IF r.requests_remaining <= 0 /\ before_reset(r, t) THEN "NameError" ELSE "False"

\* "True", "False", or "NameError": the warning of the quota branch formats the
\* reset time with datetime, a name the module never imports
should_rate_limit(r, t) ==
    IF r.requests_remaining <= 0 /\ before_reset(r, t) THEN "NameError"
    ELSE IF t - r.last_request_time < MinSpacing THEN "True"
    ELSE "False"

wait_time(r, t) ==
    IF before_reset(r, t) THEN Max(MinSpacing, r.reset_time - t)
    ELSE Max(MinSpacing, MinSpacing - (t - r.last_request_time))

after_sleep_past_boundary(r, t) ==
    IF r.has_reset /\ r.reset_time # 0 /\ t > r.reset_time
    THEN [r EXCEPT !.requests_remaining = DefaultRequests, !.has_reset = FALSE,
                   !.reset_time = 0]
    ELSE r

\* after time.sleep: the reset period has passed
after_sleep(r, t) ==
    IF r.has_reset /\ r.reset_time # 0 /\ t >= r.reset_time
    THEN [r EXCEPT !.requests_remaining = DefaultRequests, !.has_reset = FALSE,
                   !.reset_time = 0]
    ELSE r

\* a wait_if_needed that is never entered
WhileShouldRateLimit_left_out(r, t) ==
    /\ rl_pc' = "idle"
    /\ rl_wait' = 0

\* the `while self.should_rate_limit()` test with the state r at time t
WhileShouldRateLimit(r, t) ==
    LET limit == should_rate_limit(r, t) IN
    /\ rl_pc' = CASE limit = "NameError" -> "raised"
                  [] limit = "True" -> "sleeping"
                  [] OTHER -> "returned"
    /\ rl_wait' = IF limit = "True" THEN wait_time(r, t) ELSE 0

RateIdle == rl_pc \in {"idle", "returned", "raised"}

\* time passes between the calls of the client
Tick ==
    /\ RateIdle
    /\ now < MaxTime
    /\ now' = now + 1
    /\ rl_pc' = "idle"
    /\ UNCHANGED <<rl, rl_wait, rl_naps, rl_call>>
    /\ UNCHANGED <<analyzer_vars, files, code_block, trace_vars, page_vars, client_vars, flow_vars, call_vars>>

\* rate_limit_state.update_from_headers(headers) on a response
UpdateFromHeaders ==
    /\ RateIdle
    /\ now <= MaxTime
    /\ \E headers \in Headers(now) : rl' = update_from_headers(rl, headers, now)
    /\ rl_pc' = "idle"
    /\ UNCHANGED <<now, rl_wait, rl_naps, rl_call>>
    /\ UNCHANGED <<analyzer_vars, files, code_block, trace_vars, page_vars, client_vars, flow_vars, call_vars>>

\* rate_limit_state.wait_if_needed() up to its first sleep, return or raise
WaitIfNeeded ==
    /\ RateIdle
    /\ now <= MaxTime
    /\ rl_call' = [rl |-> rl, now |-> now]
    /\ rl_naps' = <<>>
    /\ WhileShouldRateLimit(rl, now)
    /\ UNCHANGED <<rl, now>>
    /\ UNCHANGED <<analyzer_vars, files, code_block, trace_vars, page_vars, client_vars, flow_vars, call_vars>>

\* time.sleep(wait_time) ends: the rest of the loop body and the next test
Wake ==
    /\ rl_pc = "sleeping"
    /\ \E late \in 0..MaxOversleep :
          /\ now' = now + rl_wait + late
          /\ rl_naps' = Append(rl_naps, rl_wait + late)
          /\ rl' = after_sleep(rl, now')
          /\ WhileShouldRateLimit(rl', now')
    /\ UNCHANGED rl_call
    /\ UNCHANGED <<analyzer_vars, files, code_block, trace_vars, page_vars, client_vars, flow_vars, call_vars>>

----------------------------------------------------------------------------
(* The Oracle Gateway: what claude.analyze_error hands back to analyze *)

\* result.get("tool"), params.get("type"), params.get("context", ""), and
\* whether result.get("analysis") is a non-empty text
\* error is the 'error' entry of the result (<<>> for None) and slept the
\* seconds analyze_error slept in its exception handler before returning
Response(tool, type, context, analysis) ==
    [tool |-> tool, type |-> type, context |-> context, analysis |-> analysis,
     error |-> <<>>, slept |-> 0]

NoResponse == Response("", "", <<>>, FALSE)

GetInfo(type, context) == Response("get_info", type, context, FALSE)
RootCause == Response("show_root_cause", "", <<>>, FALSE)

\* time.sleep(5) in the exception handler of analyze_error, in seconds
RateLimitCooldown == 5

RateLimitError == <<"Rate limit error">>

\* the messages of the exceptions a call of the API raises, as words
GatewayErrors ==
    { <<"Error code: 429", "rate_limit_error", "exceeded">>,
      <<"Error code: 401", "authentication_error">>,
      <<"Connection error.">> }

\* the except branch of ClaudeClient.analyze_error: the result for an
\* exception whose message is error_msg
analyze_error_except(error_msg) ==
    IF Contains(error_msg, <<"rate_limit_error">>)
    THEN [tool |-> "None", type |-> "", context |-> <<>>, analysis |-> TRUE,
          error |-> RateLimitError, slept |-> RateLimitCooldown]
    ELSE [tool |-> "None", type |-> "", context |-> <<>>, analysis |-> FALSE,
          error |-> error_msg, slept |-> 0]

\* the result of analyze_error for a response with text and no tool_use item:
\* tool None and the analysis 'No valid response from LLM'
NoToolUse == Response("None", "", <<>>, TRUE)

\* if len(context.current_findings) > 50
MaxFindings == 50

\* a text that names more files than MaxFindings: a.py, again and again
ManyReferences ==
    [i \in 1..(5 * (MaxFindings + 1)) |-> <<"a", ".", "p", "y", " ">>[((i - 1) % 5) + 1]]

\* The answers of the API to a request of a session: a tool_use item gives a
\* result with an empty analysis, an answer without one gives NoToolUse.  The
\* contexts are chosen so that every branch of the three tools is taken in the
\* workspace below.
ApiResponses ==
    { RootCause,
      GetInfo("fetch_files", <<"!">>),
      GetInfo("fetch_files", <<"!", "!">>),
      GetInfo("fetch_files", <<"a", "p", "p", ".", "p", "y">>),
      GetInfo("fetch_files", <<"l", "o", "g", "o", " ", "m", "a", "i", "n", ".", "p", "y">>),
      GetInfo("fetch_files", <<"C", "A", "F", "É", ".", "p", "y">>),
      GetInfo("fetch_logs", <<"1">>),
      GetInfo("fetch_code", <<"a", "p", "p", ".", "p", "y", ":", "4", "2">>),
      GetInfo("fetch_code", <<"g", "o", "n", "e", ".", "r", "b", ":", "3">>),
      GetInfo("fetch_code", <<".", "/", "a", "p", "p", ".", "p", "y", ":", "3">>),
      GetInfo("fetch_code", <<"p", "k", "g", ".", "d", ":", "1">>),
      GetInfo("fetch_code", <<"!">>),
      GetInfo("fetch_code", ManyReferences),
      GetInfo("fetch_callers", <<"x">>),
      Response("fetch_files", "", <<>>, FALSE),
      NoToolUse }

\* The answers of an API that asks for the code of app.py, at any line or at none
MaxLineNumber == 42
AppPy == <<"a", "p", "p", ".", "p", "y">>
CodeResponses ==
    {GetInfo("fetch_code", AppPy \o <<":">> \o str(n)) : n \in 0..MaxLineNumber}
        \cup {GetInfo("fetch_code", AppPy)}

\* the messages of the exceptions raised before the API is called
NameErrorDatetime == <<"name 'datetime' is not defined">>
ListHasNoItems == <<"'list' object has no attribute 'items'">>

\* ticks of 100 ms in a second, and how long a request to the API takes
TicksPerSecond == 10
ApiLatency == 1

\* lines 230-237: str(findings) is built with findings.items(), which a list
\* does not have
format_findings(findings) == IF findings # <<>> THEN "AttributeError" ELSE "str"

\* where a call of analyze_error is once it has stopped running: back in
\* analyze with a result, or blocked in messages.create
Answered(result) == [pc |-> "answered", result |-> result]
Requesting == [pc |-> "requesting", result |-> NoResponse]

\* the tool_executed record of the last finding, NoTool for an empty list
last_tool(findings) ==
    IF findings = <<>> THEN NoTool ELSE findings[Len(findings)].tool_executed

\* lines 230-289, the try block of analyze_error after wait_if_needed: the
\* formatting of the findings raises into the handler, which returns its
\* result, or the prompt is built and messages.create is called
analyze_error_try(findings) ==
    IF format_findings(findings) = "AttributeError"
    THEN Answered(analyze_error_except(ListHasNoItems))
    ELSE Requesting

\* what the API of this session answers
ApiAnswers == IF oracle_kind = "code" THEN CodeResponses ELSE ApiResponses

----------------------------------------------------------------------------
(* Analyzer.analyze.  A step of the session runs from one point where the   *)
(* thread waits or hands over to the next: the time.sleep of wait_if_needed, *)
(* the request to the API, the time.sleep(5) of the handler, the return of  *)
(* analyze_error, each call of the display callback.  pc is where it is:    *)
(* idle, running (at the top of analyze), sleeping, requesting, cooling,    *)
(* answered, displaying, returned, raised.                                  *)

\* a finding a caller's context already holds
PriorFinding == _fetch_logs(<<>>, <<"1">>).findings[1]
InitialContexts == {<<>>, <<PriorFinding>>, <<PriorFinding, PriorFinding>>}

WorkspaceFiles ==
    << File(<<"a", "p", "p", ".", "p", "y">>, 10, 300, TRUE),
       File(<<"m", "a", "i", "n", ".", "p", "y">>, 50, 2500, TRUE),
       File(<<"l", "o", "g", "o", ".", "p", "n", "g">>, 1, 900, FALSE),
       File(<<"c", "a", "f", "é", ".", "p", "y">>, 3, 90, TRUE),
       File(<<"p", "k", "g", ".", "d", "/", "m", "o", "d", ".", "p", "y">>, 4, 120, TRUE) >>

\* `if self.display_callback:` around every call of the callback: without a
\* callback the steps that display are not taken
Callable(steps) ==
    IF display_callback THEN steps ELSE SelectSeq(steps, IsAppend)

too_many_iterations(findings) == Len(findings) > MaxFindings

\* any(f == last_finding for f in context.current_findings[:-1])
repeated_analysis(findings) ==
    /\ findings # <<>>
    /\ \E i \in 1..(Len(findings) - 1) : findings[i] = findings[Len(findings)]

\* any(f.get("tool_executed") == current_tool for f in context.current_findings)
already_executed(findings, current_tool) ==
    \E i \in 1..Len(findings) : findings[i].tool_executed = current_tool

record_tool_left_out(findings, current_tool) == findings

\* context.current_findings[-1]["tool_executed"] = current_tool
record_tool(findings, current_tool) ==
    [findings EXCEPT ![Len(findings)].tool_executed = current_tool]

\* elif info_type == "fetch_logs" turned into the default branch
is_fetch_logs_default(info_type) == info_type \notin {"fetch_files", "fetch_code"}

\* elif info_type == "fetch_logs"
is_fetch_logs(info_type) == info_type = "fetch_logs"

\* lines 579-581: the analysis of the result goes to the display callback
analysis_shown(r) == IF r.analysis THEN <<Display("analysis")>> ELSE <<>>

\* a return statement left out: the call goes on to the next iteration
Return_missing(terminal) ==
    /\ pc' = "running"
    /\ state' = terminal

\* return context
Return(terminal) ==
    /\ pc' = "returned"
    /\ state' = terminal

\* the branch of analyze in progress: the steps it has still to take, the
\* tool it runs (NoTool when it runs none), the state analyze is in when the
\* branch is over, and the length of the findings when it began
Branch(steps, tool, terminal, before) ==
    [steps |-> steps, tool |-> tool, terminal |-> terminal, before |-> before]
NoBranch == Branch(<<>>, NoTool, "", 0)

\* analyze(initial_input, display_callback, context)
StartAnalyze ==
    /\ pc = "idle"
    /\ \E cb \in BOOLEAN, ctx \in InitialContexts :
          /\ display_callback' = cb
          /\ current_findings' = ctx
          /\ initial_findings' = ctx
    /\ pc' = "running"
    /\ state' = "RUNNING"
    /\ UNCHANGED <<display, oracle_calls, oracle_kind, last_response, executed, branch>>
    /\ UNCHANGED <<files, code_block, rate_vars, trace_vars, page_vars, client_vars, flow_vars, call_vars>>

\* current_analysis is None or the text the oracle wrote
NoMemo == "None"
Memos == {NoMemo, "analysis so far"}

\* self.claude.analyze_error(initial_input, context.current_findings): the
\* call names no current_analysis, so the parameter keeps its default, whatever
\* the previous response returned
current_analysis_argument(previous) == NoMemo

\* result['current_analysis'] of the response r to a call given current_analysis:
\* the except branch hands the argument back, otherwise it is the text of the
\* answer, None when the answer has no text item
current_analysis_returned(r, current_analysis) ==
    IF r.error # <<>> THEN {current_analysis} ELSE Memos

\* whether some client of the process knows at time t that no request is left
quota_known_exhausted(cs, t) ==
    \E d \in DOMAIN cs :
        /\ cs[d].rate_limit_state.requests_remaining <= 0
        /\ before_reset(cs[d].rate_limit_state, t)

\* lines 568-576: analyze_error returns result to analyze
Oracle(result) ==
    /\ pc' = "answered"
    /\ oracle_calls' = oracle_calls + 1
    /\ last_response' = result
    /\ \E m \in current_analysis_returned(result,
                                          current_analysis_argument(memo.returned)) :
          memo' = [given |-> current_analysis_argument(memo.returned), returned |-> m]

\* the call of analyze_error is still in progress, at position at
InAnalyzeError(at) ==
    /\ pc' = at
    /\ UNCHANGED <<oracle_calls, last_response, memo>>

\* analyze_error goes on from a test of the loop of wait_if_needed that left
\* the thread at position at: asleep in time.sleep, raising the NameError of
\* should_rate_limit into the handler, or returned to the try block
AfterLoopTest(at) ==
    CASE at = "sleeping" -> InAnalyzeError("sleeping")
      [] at = "raised" -> Oracle(analyze_error_except(NameErrorDatetime))
      [] OTHER -> IF analyze_error_try(current_findings).pc = "answered"
                  THEN Oracle(analyze_error_try(current_findings).result)
                  ELSE InAnalyzeError("requesting")

\* the client of the Analyzer is the client "analyzer" of the process
AnalyzerClient(r) == [clients EXCEPT !["analyzer"].rate_limit_state = r]

\* line 568: analyze calls claude.analyze_error, which runs up to the first
\* time.sleep of wait_if_needed (line 91), to the request (line 284) or, with
\* no request made, to its return
CallAnalyzeError ==
    /\ pc = "running"
    /\ ~too_many_iterations(current_findings)
    /\ ~repeated_analysis(current_findings)
    /\ rl_call' = [rl |-> rl, now |-> now]
    /\ rl_naps' = <<>>
    /\ WhileShouldRateLimit(rl, now)
    /\ AfterLoopTest(rl_pc')
    /\ UNCHANGED <<rl, now, clients, api_calls>>
    /\ UNCHANGED <<state, current_findings, initial_findings, display_callback, display,
                   oracle_kind, executed, branch>>
    /\ UNCHANGED <<files, code_block, trace_vars, page_vars, client_vars, translation,
                   construction>>

\* line 91: the time.sleep of wait_if_needed ends, up to MaxOversleep late; the
\* rest of the loop body, the next test, and analyze_error up to where it
\* stops next
WakeInWaitIfNeeded ==
    /\ pc = "sleeping"
    /\ \E late \in 0..MaxOversleep :
          /\ now' = now + rl_wait + late
          /\ rl_naps' = Append(rl_naps, rl_wait + late)
          /\ rl' = after_sleep(rl, now')
          /\ WhileShouldRateLimit(rl', now')
    /\ AfterLoopTest(rl_pc')
    /\ clients' = AnalyzerClient(rl')
    /\ UNCHANGED <<rl_call, api_calls>>
    /\ UNCHANGED <<state, current_findings, initial_findings, display_callback, display,
                   oracle_kind, executed, branch>>
    /\ UNCHANGED <<files, code_block, trace_vars, page_vars, client_vars, translation,
                   construction>>

\* lines 284-351: the request is over after ApiLatency.  The API answered, with
\* rate-limit headers (kept by update_from_headers) or without, and
\* analyze_error returns the answer; or messages.create raised: the handler
\* returns its result, after time.sleep(5) for a rate_limit_error
MessagesCreateReturns ==
    /\ pc = "requesting"
    /\ now' = now + ApiLatency
    /\ api_calls' = Append(api_calls,
                           [client |-> "analyzer", at |-> now,
                            quota_known_exhausted |-> quota_known_exhausted(clients, now)])
    /\ \/ \E a \in ApiAnswers, headers \in ClientHeaders(now') :
             /\ rl' = update_from_headers(rl, headers, now')
             /\ Oracle(a)
       \/ \E a \in ApiAnswers :
             /\ rl' = rl
             /\ Oracle(a)
       \/ \E error_msg \in GatewayErrors :
             /\ rl' = rl
             /\ IF analyze_error_except(error_msg).slept > 0
                THEN InAnalyzeError("cooling")
                ELSE Oracle(analyze_error_except(error_msg))
    /\ clients' = AnalyzerClient(rl')
    /\ UNCHANGED <<rl_pc, rl_wait, rl_naps, rl_call>>
    /\ UNCHANGED <<state, current_findings, initial_findings, display_callback, display,
                   oracle_kind, executed, branch>>
    /\ UNCHANGED <<files, code_block, trace_vars, page_vars, client_vars, translation,
                   construction>>

\* line 344: time.sleep(5) ends, up to MaxOversleep late, and the handler
\* returns the result of a rate limit error
WakeInHandler ==
    /\ pc = "cooling"
    /\ \E late \in 0..MaxOversleep :
          now' = now + TicksPerSecond * RateLimitCooldown + late
    /\ \E error_msg \in GatewayErrors :
          /\ analyze_error_except(error_msg).slept > 0
          /\ Oracle(analyze_error_except(error_msg))
    /\ UNCHANGED <<rl, rl_pc, rl_wait, rl_naps, rl_call, clients, api_calls>>
    /\ UNCHANGED <<state, current_findings, initial_findings, display_callback, display,
                   oracle_kind, executed, branch>>
    /\ UNCHANGED <<files, code_block, trace_vars, page_vars, client_vars, translation,
                   construction>>

\* how long a tool runs, in ticks: less than a tick, or as long as the spacing
ToolTimes == {0, MinSpacing}

\* the branch b is over and left the list findings.  A branch without a tool
\* returns from analyze; after a tool the last finding is tagged and analyze
\* recurses, and tagging the last finding of an empty list raises IndexError
\* out of analyze
EndOfBranch(findings, b) ==
    IF b.tool = NoTool
    THEN /\ Return(b.terminal)
         /\ current_findings' = findings
         /\ UNCHANGED <<executed, now>>
    ELSE /\ executed' = Append(executed, [tool |-> b.tool,
                                         produced |-> Len(findings) - b.before])
         /\ \E took \in ToolTimes : now' = now + took
         /\ IF findings = <<>>
            THEN /\ current_findings' = findings
                 /\ pc' = "raised"
                 /\ state' = "RAISED_IndexError"
            ELSE /\ current_findings' = record_tool(findings, b.tool)
                 /\ pc' = "running"
                 /\ state' = "RUNNING"

\* the thread takes the steps of the branch b up to the next call of the
\* display callback, where it hands over, or to the end of the branch
Proceed(b) ==
    LET calls == {i \in 1..Len(b.steps) : IsDisplay(b.steps[i])}
        next == IF calls = {} THEN Len(b.steps) + 1
                ELSE CHOOSE i \in calls : \A j \in calls : i <= j
        findings == current_findings \o appended(SubSeq(b.steps, 1, next - 1))
    IN IF calls # {}
       THEN /\ pc' = "displaying"
            /\ current_findings' = findings
            /\ branch' = [b EXCEPT !.steps = SubSeq(b.steps, next, Len(b.steps))]
            /\ UNCHANGED <<state, executed, now>>
       ELSE /\ branch' = NoBranch
            /\ EndOfBranch(findings, b)

\* analyze enters a branch that takes steps, runs the tool named by tool and
\* ends in terminal
Enter(steps, tool, terminal) ==
    /\ Proceed(Branch(Callable(steps), tool, terminal, Len(current_findings)))
    /\ UNCHANGED <<display, initial_findings, display_callback, oracle_calls, oracle_kind,
                   last_response>>
    /\ UNCHANGED <<rl, rl_pc, rl_wait, rl_naps, rl_call>>
    /\ UNCHANGED <<files, code_block, trace_vars, page_vars, client_vars, flow_vars, call_vars>>

\* lines 549-554
StopTooManyIterations ==
    /\ pc = "running"
    /\ too_many_iterations(current_findings)
    /\ Enter(<<Display("too_many_iterations")>>, NoTool, "TERMINAL_ITERATION_CAP")

\* lines 556-564
StopRepeatedAnalysis ==
    /\ pc = "running"
    /\ ~too_many_iterations(current_findings)
    /\ repeated_analysis(current_findings)
    /\ Enter(<<Display("repeated_analysis")>>, NoTool, "TERMINAL_REPEATED_ACTION")

\* lines 579-633: analyze has the result of analyze_error, hands its analysis
\* to the display callback and enters the branch of its tool choice
Handle(steps, tool, terminal) ==
    /\ pc = "answered"
    /\ Enter(analysis_shown(last_response) \o steps, tool, terminal)

\* the display callback returns with its message; the thread goes on to the
\* next call of the callback or to the end of the branch
DisplayCallback ==
    /\ pc = "displaying"
    /\ display' = Append(display, Head(branch.steps).message)
    /\ Proceed([branch EXCEPT !.steps = Tail(branch.steps)])
    /\ UNCHANGED <<initial_findings, display_callback, oracle_calls, oracle_kind,
                   last_response>>
    /\ UNCHANGED <<rl, rl_pc, rl_wait, rl_naps, rl_call>>
    /\ UNCHANGED <<files, code_block, trace_vars, page_vars, client_vars, flow_vars, call_vars>>

\* lines 584-591
ShowRootCause ==
    /\ last_response.tool = "show_root_cause"
    /\ Handle(<<Display("root_cause")>>, NoTool, "TERMINAL_ROOT_CAUSE")

\* lines 599-605.  The step needs an answer get_info to a call that was given
\* findings, and the analyze_error of ClaudeClient gives none: it is no part
\* of Analyze.
StopRepeatedTool ==
    /\ last_response.tool = "get_info"
    /\ already_executed(current_findings, Tool(last_response.type, last_response.context))
    /\ Handle(<<Display("repeated_tool")>>, NoTool, "TERMINAL_REPEATED_ACTION")

\* whether analyze goes on to its tools with the result r
to_dispatch(r) ==
    /\ r.tool = "get_info"
    /\ ~already_executed(current_findings, Tool(r.type, r.context))

\* lines 607-613
FetchFiles ==
    /\ to_dispatch(last_response)
    /\ last_response.type = "fetch_files"
    /\ Handle(_fetch_files(current_findings, last_response.context).steps,
              Tool(last_response.type, last_response.context), "RUNNING")

\* lines 614-619
FetchLogs ==
    /\ to_dispatch(last_response)
    /\ is_fetch_logs(last_response.type)
    /\ Handle(_fetch_logs(current_findings, last_response.context).steps,
              Tool(last_response.type, last_response.context), "RUNNING")

\* lines 620-625
FetchCode ==
    /\ to_dispatch(last_response)
    /\ last_response.type = "fetch_code"
    /\ Handle(_fetch_code(current_findings, last_response.context).steps,
              Tool(last_response.type, last_response.context), "RUNNING")

\* lines 626-629
UnknownInfoType ==
    /\ to_dispatch(last_response)
    /\ last_response.type \notin {"fetch_files", "fetch_code"}
    /\ ~is_fetch_logs(last_response.type)
    /\ Handle(<<Display("unknown_info_type")>>, NoTool, "TERMINAL_UNRECOGNIZED_ACTION")

\* lines 630-633
UnknownTool ==
    /\ last_response.tool \notin {"show_root_cause", "get_info"}
    /\ Handle(<<Display("unknown_tool")>>, NoTool, "TERMINAL_UNRECOGNIZED_ACTION")

Analyze ==
    \/ StartAnalyze
    \/ StopTooManyIterations
    \/ StopRepeatedAnalysis
    \/ CallAnalyzeError
    \/ WakeInWaitIfNeeded
    \/ MessagesCreateReturns
    \/ WakeInHandler
    \/ ShowRootCause
    \/ FetchFiles
    \/ FetchLogs
    \/ FetchCode
    \/ UnknownInfoType
    \/ UnknownTool
    \/ DisplayCallback

----------------------------------------------------------------------------
(* Analyzer.analyze with a gateway of the caller's as self.claude.  analyze  *)
(* asks whatever object the attribute holds (line 568) and takes what it     *)
(* returns; such a gateway accepts the list of findings and answers as it    *)
(* chooses.                                                                  *)

\* what the gateway may answer: the root cause, a text without a tool, the
\* first page of the logs, files that no pattern of the context names (each
\* context is shorter than a pattern), more references than MaxFindings, a kind
\* of information analyze does not know
GatewayResponses ==
    { RootCause,
      NoToolUse,
      GetInfo("fetch_logs", <<"1">>),
      GetInfo("fetch_files", <<"!">>),
      GetInfo("fetch_files", <<"!", "!">>),
      GetInfo("fetch_code", ManyReferences),
      GetInfo("fetch_callers", <<"x">>) }

\* a gateway that only ever asks for the logs and for those files
SearchResponses ==
    { GetInfo("fetch_logs", <<"1">>),
      GetInfo("fetch_files", <<"!">>),
      GetInfo("fetch_files", <<"!", "!">>) }

\* the gateways a session may be given: one that answers anything, followed
\* for MaxVariedCalls calls, and one that only searches, followed for
\* MaxGatewayCalls calls
MaxVariedCalls == 3
MaxGatewayCalls == 51
Gateways == {"varied", "searching"}

GatewayAnswersOf(kind) == IF kind = "searching" THEN SearchResponses ELSE GatewayResponses
GatewayCallsOf(kind) == IF kind = "searching" THEN MaxGatewayCalls ELSE MaxVariedCalls

\* line 568: the checks of lines 549-564 passed and analyze calls
\* self.claude.analyze_error(initial_input, context.current_findings)
CallGateway ==
    /\ pc = "running"
    /\ ~too_many_iterations(current_findings)
    /\ ~repeated_analysis(current_findings)
    /\ oracle_calls < GatewayCallsOf(oracle_kind)
    /\ InAnalyzeError("asking")
    /\ UNCHANGED <<state, current_findings, initial_findings, display_callback, display,
                   oracle_kind, executed, branch>>
    /\ UNCHANGED <<files, code_block, rate_vars, trace_vars, page_vars, client_vars,
                   call_vars>>

\* lines 568-576: the gateway returns its answer to analyze
GatewayAnswers ==
    /\ pc = "asking"
    /\ \E r \in GatewayAnswersOf(oracle_kind) : Oracle(r)
    /\ UNCHANGED <<state, current_findings, initial_findings, display_callback, display,
                   oracle_kind, executed, branch>>
    /\ UNCHANGED <<files, code_block, rate_vars, trace_vars, page_vars, client_vars,
                   call_vars>>

AnalyzeWithGateway ==
    \/ StartAnalyze
    \/ StopTooManyIterations
    \/ StopRepeatedAnalysis
    \/ CallGateway
    \/ GatewayAnswers
    \/ ShowRootCause
    \/ StopRepeatedTool
    \/ FetchFiles
    \/ FetchLogs
    \/ FetchCode
    \/ UnknownInfoType
    \/ UnknownTool
    \/ DisplayCallback

----------------------------------------------------------------------------
(* The pages of the AnalysisContext.  The paging code is not among the      *)
(* sources; these definitions follow the component design of the            *)
(* AnalysisContext.  A page is all_input[start:end] and is kept as the      *)
(* positions it spans.  The fetch_logs step is Analyzer._fetch_logs.        *)

\* ceil(a / b) for b > 0
CeilDiv(a, b) == (a + b - 1) \div b

\* floor(a / b): the page count a truncating division would give
total_pages_floor(len, page_size, overlap_size) ==
    IF len <= page_size THEN 1
    ELSE Max(1, (len - overlap_size) \div (page_size - overlap_size))

total_pages(len, page_size, overlap_size) ==
    IF len <= page_size THEN 1
    ELSE Max(1, CeilDiv(len - overlap_size, page_size - overlap_size))

\* AnalysisContext(all_input, page_size, overlap_size), by the length of all_input
AnalysisContext(len, page_size, overlap_size) ==
    [len |-> len, page_size |-> page_size, overlap_size |-> overlap_size,
     total_pages |-> total_pages(len, page_size, overlap_size),
     current_page_index |-> 0]

\* where the window of the current page would start without the overlap
window_start(ctx) == ctx.current_page_index * (ctx.page_size - ctx.overlap_size)

\* a page shifted left by a whole page_size instead of the overlap
page_start_overshifted(ctx) ==
    IF ctx.current_page_index > 0 THEN window_start(ctx) - ctx.page_size
    ELSE window_start(ctx)

\* every page after the first is shifted left by overlap_size
page_start(ctx) ==
    IF ctx.current_page_index > 0 THEN window_start(ctx) - ctx.overlap_size
    ELSE window_start(ctx)

\* s[start:end] of a string of length len, as Python slices it: the positions
\* first..last-1 it holds (a negative start counts from the end)
PySlice(len, start, end) ==
    LET first == IF start < 0 THEN Max(0, len + start) ELSE Min(start, len)
        last == IF end < 0 THEN Max(0, len + end) ELSE Min(end, len)
    IN [first |-> first, last |-> Max(first, last)]

get_current_page(ctx) ==
    LET start == page_start(ctx)
        end == Min(ctx.len, start + ctx.page_size)
    IN [start |-> start, end |-> end, text |-> PySlice(ctx.len, start, end)]

\* advance_page that wraps around to the first page
advance_page_wrapping(ctx) ==
    IF ctx.current_page_index < ctx.total_pages - 1
    THEN [ctx |-> [ctx EXCEPT !.current_page_index = @ + 1], advanced |-> TRUE]
    ELSE [ctx |-> [ctx EXCEPT !.current_page_index = 0], advanced |-> FALSE]

advance_page(ctx) ==
    IF ctx.current_page_index < ctx.total_pages - 1
    THEN [ctx |-> [ctx EXCEPT !.current_page_index = @ + 1], advanced |-> TRUE]
    ELSE [ctx |-> ctx, advanced |-> FALSE]

NoPage == [start |-> 0, end |-> 0, text |-> [first |-> 0, last |-> 0]]
NoPageOp == [op |-> "none", log_context |-> <<>>, advanced |-> FALSE, page |-> NoPage]

IdlePages ==
    /\ page_ctx = AnalysisContext(0, 2, 1)
    /\ page_op = NoPageOp

GetCurrentPage ==
    /\ page_op' = [NoPageOp EXCEPT !.op = "get_current_page",
                                   !.page = get_current_page(page_ctx)]
    /\ UNCHANGED page_ctx
    /\ UNCHANGED <<analyzer_vars, files, code_block, rate_vars, trace_vars, client_vars, flow_vars, call_vars>>

AdvancePage ==
    /\ page_ctx' = advance_page(page_ctx).ctx
    /\ page_op' = [NoPageOp EXCEPT !.op = "advance_page",
                                   !.advanced = advance_page(page_ctx).advanced]
    /\ UNCHANGED <<analyzer_vars, files, code_block, rate_vars, trace_vars, client_vars, flow_vars, call_vars>>

\* how many fetch_logs steps a context is followed for
MaxPageFetches == 2

\* the other fields of the session are left alone by a step on the pages
PagesOnly ==
    UNCHANGED <<pc, state, initial_findings, display_callback, display, oracle_calls,
                oracle_kind, last_response, executed, branch>>

\* self._fetch_logs(context, log_context) for the page number the oracle asked
\* for, any positive number: the Finding 'Using initial input as logs' is
\* appended; no page is fetched and the page index stays where it is
FetchLogsPage ==
    /\ Len(current_findings) < MaxPageFetches
    /\ \E page_number \in 1..(page_ctx.total_pages + 1) :
          /\ current_findings' = _fetch_logs(current_findings, str(page_number)).findings
          /\ page_op' = [NoPageOp EXCEPT !.op = "fetch_logs",
                                         !.log_context = str(page_number)]
    /\ UNCHANGED page_ctx
    /\ PagesOnly
    /\ UNCHANGED <<files, code_block, rate_vars, trace_vars, client_vars, flow_vars, call_vars>>

----------------------------------------------------------------------------
(* ClaudeClient.analyze_logs and the pages it has analyzed.  A step of a   *)
(* call runs from one point where the thread waits to the next: the        *)
(* time.sleep of wait_if_needed, the request to the API, the time.sleep(5)  *)
(* of the handler.  client_call.pc is where the call is: idle, sleeping,    *)
(* requesting, cooling, returned.                                           *)

\* the page marked only when the call is over
analyzed_pages_add_deferred(pages, current_page) == pages

\* self.analyzed_pages.add(current_page), before the try block
analyzed_pages_add(pages, current_page) == pages \cup {current_page}

MaxClientPage == 5

NoClientCall == [current_page |-> 0, pc |-> "idle", outcome |-> "none", returned |-> ""]

IdleClient ==
    /\ analyzed_pages = {}
    /\ client_call = NoClientCall

\* what analyze_logs returns for each way the call can end: the text of the
\* response, or a text made from the message of the exception
analyze_logs_returns(outcome) ==
    CASE outcome = "response" -> "analysis"
      [] outcome = "no_content" -> "No analysis provided"
      [] outcome = "rate_limit_error" ->
            "Rate limit reached. Please try again with a smaller context."
      [] OTHER -> "Error analyzing logs: " \o outcome

\* analyze_logs returns with the outcome
AnalyzeLogsReturns(call, outcome) ==
    client_call' = [call EXCEPT !.pc = "returned", !.outcome = outcome,
                                !.returned = analyze_logs_returns(outcome)]

\* the call goes on from a test of the loop of wait_if_needed that left the
\* thread at position at: asleep in time.sleep, raising the NameError of
\* should_rate_limit into the handler, or on to the request
AnalyzeLogsAfterLoopTest(call, at) ==
    CASE at = "sleeping" -> client_call' = [call EXCEPT !.pc = "sleeping"]
      [] at = "raised" -> AnalyzeLogsReturns(call, NameErrorDatetime[1])
      [] OTHER -> client_call' = [call EXCEPT !.pc = "requesting"]

\* lines 402-422: analyze_logs(logs, current_page, total_pages) marks the page
\* and runs up to the first time.sleep of wait_if_needed, to the request or,
\* with no request made, to its return
AnalyzeLogsBegin ==
    /\ client_call.pc \in {"idle", "returned"}
    /\ now <= MaxTime
    /\ \E current_page \in 1..MaxClientPage :
          /\ analyzed_pages' = analyzed_pages_add(analyzed_pages, current_page)
          /\ rl_call' = [rl |-> rl, now |-> now]
          /\ rl_naps' = <<>>
          /\ WhileShouldRateLimit(rl, now)
          /\ AnalyzeLogsAfterLoopTest([current_page |-> current_page, pc |-> "idle",
                                       outcome |-> "pending", returned |-> ""], rl_pc')
    /\ UNCHANGED <<rl, now>>
    /\ UNCHANGED <<analyzer_vars, files, code_block, trace_vars, page_vars, call_vars,
                   flow_vars>>

\* line 91: the time.sleep of wait_if_needed ends, up to MaxOversleep late
AnalyzeLogsWake ==
    /\ client_call.pc = "sleeping"
    /\ \E late \in 0..MaxOversleep :
          /\ now' = now + rl_wait + late
          /\ rl_naps' = Append(rl_naps, rl_wait + late)
          /\ rl' = after_sleep(rl, now')
          /\ WhileShouldRateLimit(rl', now')
    /\ AnalyzeLogsAfterLoopTest(client_call, rl_pc')
    /\ UNCHANGED <<rl_call, analyzed_pages>>
    /\ UNCHANGED <<analyzer_vars, files, code_block, trace_vars, page_vars, call_vars,
                   flow_vars>>

\* lines 441-462: the request is over after ApiLatency.  The API answered,
\* with rate-limit headers (kept by update_from_headers) or without, and
\* analyze_logs returns the text; or messages.create raised: the handler
\* returns a text, after time.sleep(5) for a rate_limit_error
AnalyzeLogsEnd ==
    /\ client_call.pc = "requesting"
    /\ now' = now + ApiLatency
    /\ \/ \E outcome \in {"response", "no_content"}, headers \in ClientHeaders(now') :
             /\ rl' = update_from_headers(rl, headers, now')
             /\ AnalyzeLogsReturns(client_call, outcome)
       \/ \E outcome \in {"response", "no_content"} :
             /\ rl' = rl
             /\ AnalyzeLogsReturns(client_call, outcome)
       \/ /\ rl' = rl
          /\ client_call' = [client_call EXCEPT !.pc = "cooling",
                                                !.outcome = "rate_limit_error"]
       \/ /\ rl' = rl
          /\ AnalyzeLogsReturns(client_call, "overloaded_error")
    /\ UNCHANGED <<rl_pc, rl_wait, rl_naps, rl_call, analyzed_pages>>
    /\ UNCHANGED <<analyzer_vars, files, code_block, trace_vars, page_vars, call_vars,
                   flow_vars>>

\* line 460: time.sleep(5) ends, up to MaxOversleep late, and the handler
\* returns its text
AnalyzeLogsCooled ==
    /\ client_call.pc = "cooling"
    /\ \E late \in 0..MaxOversleep :
          now' = now + TicksPerSecond * RateLimitCooldown + late
    /\ AnalyzeLogsReturns(client_call, "rate_limit_error")
    /\ UNCHANGED <<rl, rl_pc, rl_wait, rl_naps, rl_call, analyzed_pages>>
    /\ UNCHANGED <<analyzer_vars, files, code_block, trace_vars, page_vars, call_vars,
                   flow_vars>>

----
(* Single calls of the helpers *)

NoTranslation ==
    [called |-> FALSE, production_path |-> <<>>, raised |-> FALSE, possible_paths |-> <<>>]

\* ~/.traceback/api_key: whether it exists, whether it can be read, its content
KeyFile(exists_, readable, content) ==
    [exists |-> exists_, readable |-> readable, content |-> content]

StoredKey == KeyFile(TRUE, TRUE, <<"s", "k", "-", "1", " ">>)

KeyFiles ==
    { KeyFile(FALSE, FALSE, <<>>), KeyFile(TRUE, FALSE, <<>>), KeyFile(TRUE, TRUE, <<>>),
      KeyFile(TRUE, TRUE, <<" ">>), StoredKey,
      KeyFile(TRUE, TRUE, <<"\t", "s", "k", "-", "1", "\n">>) }

\* the key read from the file, <<>> for None and for an empty text
load_api_key(key_file) ==
    IF key_file.exists /\ key_file.readable THEN strip(key_file.content) ELSE <<>>

\* ClaudeClient.__init__ raises ValueError: "if not self.api_key"
ClaudeClient_init_raises(api_key) == api_key = <<>>

NotConstructed(key_file) ==
    [api_key_file |-> key_file, built |-> "none", raised |-> FALSE, claude_available |-> FALSE]

\* the two ClaudeClients of a process: the one Analyzer.__init__ constructs
\* and the one TracebackApp.__init__ constructs
Clients == {"analyzer", "app"}

\* ClaudeClient.__init__: self.rate_limit_state = RateLimitState()
NewClient == [rate_limit_state |-> NewRateLimitState, pc |-> "idle", wake_at |-> 0]

IdleClients ==
    /\ clients = [c \in Clients |-> NewClient]
    /\ api_calls = <<>>

IdleCalls ==
    /\ translation = NoTranslation
    /\ construction = NotConstructed(StoredKey)
    /\ IdleClients

\* self._translate_path(production_path)
TranslatePath(production_path) ==
    /\ translation' = [called |-> TRUE, production_path |-> production_path,
                       raised |-> _translate_path_raises(production_path),
                       possible_paths |-> IF _translate_path_raises(production_path)
                                          THEN <<>>
                                          ELSE _translate_path(production_path)]
    /\ UNCHANGED <<analyzer_vars, files, code_block, rate_vars, trace_vars, page_vars,
                   client_vars, flow_vars, construction, clients, api_calls>>

\* Analyzer(workspace_root): the key is loaded and handed to ClaudeClient, whose
\* ValueError is not caught
ConstructAnalyzer ==
    /\ construction.built = "none"
    /\ construction' =
          [construction EXCEPT
              !.built = "Analyzer",
              !.raised = ClaudeClient_init_raises(load_api_key(construction.api_key_file)),
              !.claude_available =
                  ~ClaudeClient_init_raises(load_api_key(construction.api_key_file))]
    /\ UNCHANGED <<analyzer_vars, files, code_block, rate_vars, trace_vars, page_vars,
                   client_vars, flow_vars, translation, clients, api_calls>>

\* a session of the Analyzer that was constructed
AnalyzeConstructed ==
    /\ construction.built = "Analyzer"
    /\ ~construction.raised
    /\ Analyze

----------------------------------------------------------------------------
(* Several clients calling the API in one process.  Each thread runs          *)
(* analyze_error: wait_if_needed on the client's own RateLimitState, then the *)
(* call of the API, then update_from_headers on a response that carries       *)
(* headers, or the exception handler when the call raised.  A client is idle, *)
(* sleeping (in wait_if_needed), calling (in messages.create) or cooling (in  *)
(* the time.sleep(5) of the handler); wake_at is when its wait can end.       *)

\* how long the clients are followed
ClientsHorizon == 3

\* the test of `while self.should_rate_limit()` by client c with state r: the
\* loop is left and messages.create is called, or the thread sleeps, or the
\* NameError of should_rate_limit ends analyze_error in its handler
ClientLoopTest(c, r) ==
    LET limit == should_rate_limit(r, now) IN
    /\ clients' = [clients EXCEPT
                      ![c] = [rate_limit_state |-> r,
                              pc |-> CASE limit = "NameError" -> "idle"
                                       [] limit = "True" -> "sleeping"
                                       [] OTHER -> "calling",
                              wake_at |-> CASE limit = "True" -> now + wait_time(r, now)
                                            [] limit = "False" -> now + ApiLatency
                                            [] OTHER -> 0]]
    /\ api_calls' =
          IF limit = "False"
          THEN Append(api_calls,
                      [client |-> c, at |-> now,
                       quota_known_exhausted |->
                           \E d \in Clients :
                               /\ clients[d].rate_limit_state.requests_remaining <= 0
                               /\ before_reset(clients[d].rate_limit_state, now)])
          ELSE api_calls

\* how many requests to the API the clients are followed for
MaxClientCalls == 3

\* a thread enters analyze_error on client c
ClientWaitIfNeeded(c) ==
    /\ clients[c].pc = "idle"
    /\ Len(api_calls) < MaxClientCalls
    /\ ClientLoopTest(c, clients[c].rate_limit_state)
    /\ UNCHANGED <<analyzer_vars, files, code_block, rate_vars, trace_vars, page_vars,
                   client_vars, flow_vars, translation, construction>>

\* time.sleep(wait_time) of client c is over
ClientWake(c) ==
    /\ clients[c].pc = "sleeping"
    /\ now >= clients[c].wake_at
    /\ ClientLoopTest(c, after_sleep(clients[c].rate_limit_state, now))
    /\ UNCHANGED <<analyzer_vars, files, code_block, rate_vars, trace_vars, page_vars,
                   client_vars, flow_vars, translation, construction>>

\* the state client c is left in when its call of analyze_error goes on to at
ClientAt(c, r, at, wake_at) ==
    clients' = [clients EXCEPT ![c] = [rate_limit_state |-> r, pc |-> at,
                                        wake_at |-> wake_at]]

\* lines 283-359: the call of the API by client c is over, ApiLatency after it
\* began or later.  The response carries rate-limit headers, which
\* update_from_headers keeps, or none (no _response), and analyze_error
\* returns; or messages.create raised, and the handler returns, after
\* time.sleep(5) for a rate_limit_error
ClientResponse(c) ==
    /\ clients[c].pc = "calling"
    /\ now >= clients[c].wake_at
    /\ \/ \E headers \in ClientHeaders(now) :
             ClientAt(c, update_from_headers(clients[c].rate_limit_state, headers, now),
                      "idle", 0)
       \/ ClientAt(c, clients[c].rate_limit_state, "idle", 0)
       \/ \E error_msg \in GatewayErrors :
             IF analyze_error_except(error_msg).slept > 0
             THEN ClientAt(c, clients[c].rate_limit_state, "cooling",
                           now + TicksPerSecond * analyze_error_except(error_msg).slept)
             ELSE ClientAt(c, clients[c].rate_limit_state, "idle", 0)
    /\ UNCHANGED api_calls
    /\ UNCHANGED <<analyzer_vars, files, code_block, rate_vars, trace_vars, page_vars,
                   client_vars, flow_vars, translation, construction>>

\* line 344: the time.sleep(5) of client c is over and the handler returns
ClientCooled(c) ==
    /\ clients[c].pc = "cooling"
    /\ now >= clients[c].wake_at
    /\ ClientAt(c, clients[c].rate_limit_state, "idle", 0)
    /\ UNCHANGED api_calls
    /\ UNCHANGED <<analyzer_vars, files, code_block, rate_vars, trace_vars, page_vars,
                   client_vars, flow_vars, translation, construction>>

\* time passes
ClockTick ==
    /\ now < StartTime + ClientsHorizon
    /\ now' = now + 1
    /\ UNCHANGED <<rl, rl_pc, rl_wait, rl_naps, rl_call>>
    /\ UNCHANGED <<analyzer_vars, files, code_block, trace_vars, page_vars, client_vars, flow_vars,
                   call_vars>>

\* the clients are followed no further tick by tick: time passes until the
\* first of the handlers asleep wakes
ClockToCooled ==
    /\ now >= StartTime + ClientsHorizon
    /\ \E c \in Clients :
          /\ clients[c].pc = "cooling"
          /\ now < clients[c].wake_at
          /\ \A d \in Clients :
                clients[d].pc = "cooling" => clients[c].wake_at <= clients[d].wake_at
          /\ now' = clients[c].wake_at
    /\ UNCHANGED <<rl, rl_pc, rl_wait, rl_naps, rl_call>>
    /\ UNCHANGED <<analyzer_vars, files, code_block, trace_vars, page_vars, client_vars, flow_vars,
                   call_vars>>

----------------------------------------------------------------------------
(* The parts of the process that are at rest in a specification *)

IdleFlow ==
    memo = [given |-> NoMemo, returned |-> NoMemo]

----------------------------------------------------------------------------
(* Specifications *)

IdleAnalyzer ==
    /\ pc = "idle"
    /\ state = "RUNNING"
    /\ current_findings = <<>>
    /\ initial_findings = <<>>
    /\ display_callback = FALSE
    /\ display = <<>>
    /\ oracle_calls = 0
    /\ last_response = NoResponse
    /\ executed = <<>>
    /\ branch = NoBranch

IdleRate ==
    /\ rl = NewRateLimitState
    /\ now = StartTime
    /\ rl_pc = "idle"
    /\ rl_wait = 0
    /\ rl_naps = <<>>
    /\ rl_call = [rl |-> NewRateLimitState, now |-> 0]

IdleTrace ==
    /\ pyws = <<>>
    /\ trace_query = [file_path |-> <<>>, line_number |-> 0, max_depth_type |-> "int",
                      max_depth |-> 0]
    /\ trace = <<>>
    /\ trace_pc = "idle"

NoCodeBlock == [file_path |-> <<>>, line_number |-> 0,
                block |-> [kind |-> "none", first |-> 0, last |-> 0, code |-> <<>>]]

\* An analysis session in the workspace above
Init ==
    /\ IdleAnalyzer
    /\ oracle_kind = "free"
    /\ files = WorkspaceFiles
    /\ code_block = NoCodeBlock
    /\ IdleRate
    /\ IdlePages
    /\ IdleClient
    /\ IdleFlow
    /\ IdleCalls
    /\ IdleTrace

Next == Analyze

Spec == Init /\ [][Next]_vars

\* An analysis session of an Analyzer whose gateway is the caller's
InitGateway ==
    /\ IdleAnalyzer
    /\ oracle_kind \in Gateways
    /\ files = WorkspaceFiles
    /\ code_block = NoCodeBlock
    /\ IdleRate
    /\ IdlePages
    /\ IdleClient
    /\ IdleFlow
    /\ IdleCalls
    /\ IdleTrace

SpecGateway == InitGateway /\ [][AnalyzeWithGateway]_vars

\* Sessions that fetch code from an app.py of every length up to MaxFileLines
MaxFileLines == 23

InitFetchCode ==
    /\ IdleAnalyzer
    /\ oracle_kind = "code"
    /\ \E n \in 0..MaxFileLines : files = <<File(AppPy, n, 30 * n, TRUE)>>
    /\ code_block = NoCodeBlock
    /\ IdleRate
    /\ IdlePages
    /\ IdleClient
    /\ IdleFlow
    /\ IdleCalls
    /\ IdleTrace

NextFetchCode ==
    \/ StartAnalyze
    \/ CallAnalyzeError
    \/ WakeInWaitIfNeeded
    \/ MessagesCreateReturns
    \/ WakeInHandler
    \/ FetchCode
    \/ UnknownTool
    \/ DisplayCallback

SpecFetchCode == InitFetchCode /\ [][NextFetchCode]_vars

\* AnalysisTools.get_code_block(CodeLocation(file_path, line_number))
GetCodeBlock ==
    /\ \E file_path \in UNION {Spellings(files[i].path) : i \in 1..Len(files)}
                              \cup {<<>>, <<"g", "o", "n", "e", ".", "r", "b">>},
          line_number \in 0..MaxLineNumber :
          code_block' = [file_path |-> file_path, line_number |-> line_number,
                         block |-> get_code_block(file_path, line_number, context_lines)]
    /\ UNCHANGED <<analyzer_vars, files, rate_vars, trace_vars, page_vars, client_vars, flow_vars, call_vars>>

SpecCodeBlock == InitFetchCode /\ [][GetCodeBlock]_vars

----------------------------------------------------------------------------
(* The call-graph resolver on small Python workspaces *)

APy == <<"a", ".", "p", "y">>
BPy == <<"b", ".", "p", "y">>
MPy == <<"m", ".", "p", "y">>
NPy == <<"n", ".", "p", "y">>
ZPy == <<"z", ".", "p", "y">>

\* def f(): ...; f()           a function that calls itself
SelfRecursive ==
    << PyFile(APy, 3, TRUE, <<PyDef("f", 1, 3)>>, <<PyCall("f", 3)>>) >>

\* a.py: def A(): B()    b.py: def B(): A()
MutualRecursion ==
    << PyFile(APy, 2, TRUE, <<PyDef("A", 1, 2)>>, <<PyCall("B", 2)>>),
       PyFile(BPy, 2, TRUE, <<PyDef("B", 1, 2)>>, <<PyCall("A", 2)>>) >>

\* m.py: main calls mid and alt, mid calls leaf; n.py: alt calls leaf
Chain ==
    << PyFile(MPy, 9, TRUE,
              <<PyDef("main", 1, 3), PyDef("mid", 4, 6), PyDef("leaf", 7, 9)>>,
              <<PyCall("mid", 2), PyCall("alt", 3), PyCall("leaf", 5)>>),
       PyFile(NPy, 2, TRUE, <<PyDef("alt", 1, 2)>>, <<PyCall("leaf", 2)>>) >>

\* a.py: def f(): g(); g()   b.py does not parse
Broken ==
    << PyFile(APy, 3, TRUE, <<PyDef("f", 1, 3)>>, <<PyCall("g", 2), PyCall("f", 3)>>),
       PyFile(BPy, 4, FALSE, <<>>, <<>>) >>

SPy == <<"s", ".", "p", "y">>
OPy == <<"o", ".", "p", "y">>

\* s.py: run calls helper() and obj.helper(); the module calls helper() on line 7
Script ==
    << PyFile(SPy, 7, TRUE,
              <<PyDef("helper", 1, 2), PyDef("run", 3, 6)>>,
              <<PyCall("helper", 4), PyAttributeCall("helper", 5), PyCall("helper", 7)>>) >>

\* o.py: inner is defined inside outer, which calls it; user calls outer and
\* inner; line 8 is outside every function.  ast.walk yields outer, user, inner.
Nested ==
    << PyFile(OPy, 8, TRUE,
              <<PyDef("outer", 1, 4), PyDef("user", 5, 7), PyDef("inner", 2, 3)>>,
              <<PyCall("inner", 4), PyCall("outer", 6), PyCall("inner", 7)>>) >>

UPy == <<"u", ".", "p", "y">>

\* u.py: top calls leaf and mid, mid calls leaf
Uneven ==
    << PyFile(UPy, 7, TRUE,
              <<PyDef("top", 1, 3), PyDef("mid", 4, 5), PyDef("leaf", 6, 7)>>,
              <<PyCall("leaf", 2), PyCall("mid", 3), PyCall("leaf", 5)>>) >>

DPy == <<"d", ".", "p", "y">>

\* d.py: helper on lines 1-2; run is decorated with @helper() on line 3 and
\* defined on lines 4-5
Decorated ==
    << PyFile(DPy, 5, TRUE,
              <<PyDef("helper", 1, 2), PyDecoratedDef("run", 3, 4, 5)>>,
              <<PyCall("helper", 3)>>) >>

TopPy == <<"t", "o", "p", ".", "p", "y">>
SubXPy == <<"s", "u", "b", "/", "x", ".", "p", "y">>

\* top.py: def top; sub/x.py: up calls top.  os.walk yields the files of the
\* root before those of its directories.
Sub ==
    << PyFile(TopPy, 2, TRUE, <<PyDef("top", 1, 2)>>, <<>>),
       PyFile(SubXPy, 2, TRUE, <<PyDef("up", 1, 2)>>, <<PyCall("top", 2)>>) >>

PyWorkspaces ==
    {SelfRecursive, MutualRecursion, Chain, Broken, Script, Nested, Uneven, Decorated, Sub}

MaxTraceLine == 9
MaxTraceDepth == 4

\* the max_depth arguments of a call: a number, or None (max_depth then holds 0)
\* max_depth: int = 50
DefaultMaxDepth == 50

\* the max_depth arguments of a call: a number (the default when the caller
\* gives none), or None (max_depth then holds 0)
MaxDepths ==
    [max_depth_type : {"int"}, max_depth : 0..MaxTraceDepth \cup {DefaultMaxDepth}]
        \cup {[max_depth_type |-> "NoneType", max_depth |-> 0]}

\* the files of a Python workspace as they are on disk
disk(pyfiles) ==
    [i \in 1..Len(pyfiles) |-> File(pyfiles[i].path, pyfiles[i].nlines,
                                    30 * pyfiles[i].nlines, TRUE)]

InitTrace ==
    /\ IdleAnalyzer
    /\ oracle_kind = "free"
    /\ pyws \in PyWorkspaces
    /\ files = disk(pyws)
    /\ code_block = NoCodeBlock
    /\ IdleRate
    /\ IdlePages
    /\ IdleClient
    /\ IdleFlow
    /\ IdleCalls
    /\ trace_query = [file_path |-> <<>>, line_number |-> 0, max_depth_type |-> "int",
                      max_depth |-> 0]
    /\ trace = <<>>
    /\ trace_pc = "idle"

\* AnalysisTools.get_stack_trace(CodeLocation(file_path, line_number), max_depth).
\* The call keeps nothing from one call to the next: a behaviour makes one call.
GetStackTrace ==
    /\ trace_pc = "idle"
    /\ \E file_path \in UNION {Spellings(pyws[i].path) : i \in 1..Len(pyws)}
                              \cup {ZPy, <<"s", "u", "b">>},
          line_number \in 1..MaxTraceLine, q \in MaxDepths :
          LET call == get_stack_trace_call(CodeLocation(file_path, line_number, ""),
                                           q.max_depth_type, q.max_depth)
          IN /\ trace_query' = [file_path |-> file_path, line_number |-> line_number,
                                max_depth_type |-> q.max_depth_type,
                                max_depth |-> q.max_depth]
             /\ trace' = call.trace
             /\ trace_pc' = call.pc
    /\ UNCHANGED <<analyzer_vars, files, code_block, rate_vars, pyws, page_vars, client_vars, flow_vars, call_vars>>

SpecTrace == InitTrace /\ [][GetStackTrace]_vars

\* The rate limiter of one client, from construction
InitRate ==
    /\ IdleAnalyzer
    /\ oracle_kind = "free"
    /\ files = WorkspaceFiles
    /\ code_block = NoCodeBlock
    /\ IdleRate
    /\ IdlePages
    /\ IdleClient
    /\ IdleFlow
    /\ IdleCalls
    /\ IdleTrace

NextRate == Tick \/ UpdateFromHeaders \/ WaitIfNeeded \/ Wake

SpecRate == InitRate /\ [][NextRate]_vars

\* Paging contexts of every small input, page size and overlap, and the
\* 120,000-character input with pages of 50,000 overlapping by 5,000
MaxInputLen == 8
MaxPageSize == 4

PageSetups ==
    {<<len, page_size, overlap_size>> :
        len \in 0..MaxInputLen, page_size \in 2..MaxPageSize, overlap_size \in 1..MaxPageSize}
    \cup {<<120000, 50000, 5000>>}

InitPages ==
    /\ IdleAnalyzer
    /\ oracle_kind = "free"
    /\ files = WorkspaceFiles
    /\ code_block = NoCodeBlock
    /\ IdleRate
    /\ IdleClient
    /\ IdleFlow
    /\ IdleCalls
    /\ IdleTrace
    /\ \E s \in PageSetups :
          /\ s[2] > s[3]
          /\ page_ctx = AnalysisContext(s[1], s[2], s[3])
    /\ page_op = NoPageOp

NextPages == GetCurrentPage \/ AdvancePage \/ FetchLogsPage

SpecPages == InitPages /\ [][NextPages]_vars

\* One client analysing pages of logs
InitClient ==
    /\ IdleAnalyzer
    /\ oracle_kind = "free"
    /\ files = WorkspaceFiles
    /\ code_block = NoCodeBlock
    /\ IdleRate
    /\ IdlePages
    /\ IdleClient
    /\ IdleFlow
    /\ IdleCalls
    /\ IdleTrace

NextClient ==
    \/ AnalyzeLogsBegin
    \/ AnalyzeLogsWake
    \/ AnalyzeLogsEnd
    \/ AnalyzeLogsCooled

SpecClient == InitClient /\ [][NextClient]_vars

\* Path translation of production paths of every kind the heuristics know,
\* with and without surrounding blanks
PathPrefixes ==
    { <<>>, <<"/">>, <<".", "/">>, AppPrefix, OptPrefix, MastodonPrefix, GemsPrefix,
      <<"a", "p", "p", "/">>, <<"/", "a", "/", "p", "/">> }
PathBodies ==
    { <<>>, AppPy, <<"l", "i", "b", "/">> \o AppPy, <<"p", "a", "p", "a", ".", "r", "b">>,
      <<"r", "a", "c", "k", "-", "2", ".", "0", ".", "1", "/", "x", ".", "r", "b">> }
Blanks == {<<>>, <<" ">>, <<" ", " ">>, <<"\t">>, <<" ", "\n">>}
ProductionPaths ==
    {lead \o prefix \o body \o trail :
        lead \in Blanks, prefix \in PathPrefixes, body \in PathBodies, trail \in Blanks}

InitTranslate ==
    /\ IdleAnalyzer
    /\ oracle_kind = "free"
    /\ files = WorkspaceFiles
    /\ code_block = NoCodeBlock
    /\ IdleRate
    /\ IdlePages
    /\ IdleClient
    /\ IdleFlow
    /\ IdleCalls
    /\ IdleTrace

NextTranslate == \E production_path \in ProductionPaths : TranslatePath(production_path)

SpecTranslate == InitTranslate /\ [][NextTranslate]_vars

\* Construction with every state of the key file, then sessions of the
\* Analyzer that was constructed
InitConstruct ==
    /\ IdleAnalyzer
    /\ oracle_kind = "free"
    /\ files = WorkspaceFiles
    /\ code_block = NoCodeBlock
    /\ IdleRate
    /\ IdlePages
    /\ IdleClient
    /\ IdleFlow
    /\ IdleTrace
    /\ translation = NoTranslation
    /\ \E key_file \in KeyFiles : construction = NotConstructed(key_file)
    /\ IdleClients

NextConstruct == ConstructAnalyzer \/ AnalyzeConstructed

SpecConstruct == InitConstruct /\ [][NextConstruct]_vars

\* The clients of one process calling the API concurrently
NextClients ==
    \/ \E c \in Clients : ClientWaitIfNeeded(c)
    \/ \E c \in Clients : ClientWake(c)
    \/ \E c \in Clients : ClientResponse(c)
    \/ \E c \in Clients : ClientCooled(c)
    \/ ClockTick
    \/ ClockToCooled

SpecClients == InitRate /\ [][NextClients]_vars

----------------------------------------------------------------------------
(* Claims about Analyzer.analyze *)

Last(s) == s[Len(s)]
Count(s, x) == Cardinality({i \in 1..Len(s) : s[i] = x})

\* C1: a session halts after at most MAX_ITERATIONS (50) oracle calls, whatever
\* the gateway answers.
C1_AtMostMaxIterationsOracleCalls == oracle_calls <= MaxFindings

\* the tool the answer in hand asks for was run before in the session and
\* appended a Finding then
SecondAttempt ==
    /\ last_response.tool = "get_info"
    /\ \E i \in 1..Len(executed) :
          /\ executed[i].tool = Tool(last_response.type, last_response.context)
          /\ executed[i].produced > 0

\* C2: no Finding-producing action (same tool type, same context) is executed
\* twice in a session, whatever the gateway answers in between: every step
\* that handles the second attempt leaves the tools that ran as they are, and
\* the session ends in TERMINAL_REPEATED_ACTION.
C2_NoProducingActionExecutedTwice ==
    /\ [](\A i, j \in 1..Len(executed) :
            (i < j /\ executed[i].produced > 0 /\ executed[j].produced > 0)
                => executed[i].tool # executed[j].tool)
    /\ [][(oracle_calls >= 1 /\ pc \in {"answered", "displaying"} /\ SecondAttempt)
            => /\ executed' = executed
               /\ pc' \in {"displaying", "returned"}
               /\ pc' = "returned" => state' = "TERMINAL_REPEATED_ACTION"]_vars

\* C3: when the first oracle call of a session answers show_root_cause, analyze
\* does nothing but display the answer and return: once it has returned it is
\* in TERMINAL_ROOT_CAUSE after that one call and the root cause went through
\* the display callback exactly once; no tool ran, no further call is under
\* way and the findings are those the session started with.
C3_RootCauseOnFirstCall ==
    (oracle_calls = 1 /\ last_response.tool = "show_root_cause")
        => /\ pc \in {"answered", "displaying", "returned"}
           /\ pc = "returned" => state = "TERMINAL_ROOT_CAUSE"
           /\ current_findings = initial_findings
           /\ executed = <<>>
           /\ Count(display, "root_cause") <= 1
           /\ (pc = "returned" /\ display_callback) => Count(display, "root_cause") = 1
           /\ ~display_callback => display = <<>>

C3_Witness ==
    /\ oracle_calls = 1
    /\ last_response.tool = "show_root_cause"
    /\ pc = "returned"
    /\ display_callback
    /\ Last(display) = "root_cause"

\* an answer that names none of the four actions
Unrecognized(r) ==
    /\ r.tool \notin {"show_root_cause", "fetch_files", "fetch_logs", "fetch_code"}
    /\ ~(r.tool = "get_info" /\ r.type \in {"fetch_files", "fetch_logs", "fetch_code"})

\* analyze has the answer of the latest oracle call and has not left the
\* branch that handles it
Handling == oracle_calls >= 1 /\ pc \in {"answered", "displaying"}

\* C4: an oracle answer that is none of show_root_cause, fetch_files, fetch_logs,
\* fetch_code ends the session in TERMINAL_UNRECOGNIZED_ACTION in the iteration
\* that receives it: every step that handles it displays or returns, runs no
\* tool and appends no Finding, and no oracle call follows it.
C4_UnrecognizedActionHalts ==
    /\ [][(Handling /\ Unrecognized(last_response))
            => /\ pc' \in {"displaying", "returned"}
               /\ pc' = "returned" => state' = "TERMINAL_UNRECOGNIZED_ACTION"
               /\ current_findings' = current_findings
               /\ executed' = executed
               /\ oracle_calls' = oracle_calls]_vars
    /\ [][state = "TERMINAL_UNRECOGNIZED_ACTION"
            => (oracle_calls' = oracle_calls /\ pc' = "returned")]_vars

C4_Witness ==
    /\ state = "TERMINAL_UNRECOGNIZED_ACTION"
    /\ last_response = GetInfo("fetch_callers", <<"x">>)
    /\ oracle_calls = 1
    /\ display = <<"unknown_info_type">>

StopReasons == {"root_cause", "too_many_iterations", "repeated_analysis", "repeated_tool",
                "unknown_info_type", "unknown_tool"}

\* C5: however a session stops, with a display callback supplied the last
\* thing displayed is the reason for stopping.
C5_EveryStopIsExplained ==
    (pc \in {"returned", "raised"} /\ display_callback)
        => (display # <<>> /\ Last(display) \in StopReasons)

----------------------------------------------------------------------------
(* Claims about RateLimitState *)

\* at least the minimum spacing has elapsed since last_request_time
Spaced == now - rl.last_request_time >= MinSpacing

\* C6 as stated: at the moment wait_if_needed returns, requests_remaining > 0
\* or the time has reached reset_time, and at least the minimum spacing has
\* elapsed since last_request_time.
C6_QuotaOrResetReachedOnReturn ==
    rl_pc = "returned"
        => /\ rl.requests_remaining > 0 \/ (rl.has_reset /\ now >= rl.reset_time)
           /\ Spaced

\* C6: at the moment wait_if_needed returns, requests_remaining > 0 or no
\* reset_time is set or the time has reached reset_time, and at least the
\* minimum spacing has elapsed since last_request_time.
C6_QuotaOrNoPendingResetOnReturn ==
    rl_pc = "returned"
        => /\ rl.requests_remaining > 0 \/ ~rl.has_reset \/ now >= rl.reset_time
           /\ Spaced

\* wait_if_needed, called too soon after a response that left one request
\* and a reset time ahead, slept across the reset boundary and returned with
\* the quota reset to the default
C6_Witness ==
    /\ rl_pc = "returned"
    /\ Len(rl_naps) = 1
    /\ rl_call.rl.requests_remaining = 1
    /\ rl_call.rl.has_reset
    /\ rl_call.now < rl_call.rl.reset_time
    /\ rl_call.now - rl_call.rl.last_request_time < MinSpacing
    /\ ~rl.has_reset
    /\ rl.requests_remaining = DefaultRequests

----------------------------------------------------------------------------
(* Claims about AnalysisTools.get_stack_trace *)

\* C7: no location (file:line) occurs more than once in the trace that
\* get_stack_trace returns, whatever the call graph and the start location.
C7_NoLocationTwiceInTrace ==
    \A i, j \in 1..Len(trace) :
        i < j => location_key(trace[i].code_location)
                    # location_key(trace[j].code_location)

\* C8: get_stack_trace(loc, max_depth = 0) returns exactly one entry, and its
\* location is loc.
C8_DepthZeroIsTheLocationAlone ==
    (trace_query.line_number > 0 /\ trace_query.max_depth = 0)
        => /\ Len(trace) = 1
           /\ trace[1].code_location.file_path = trace_query.file_path
           /\ trace[1].code_location.line_number = trace_query.line_number

----------------------------------------------------------------------------
(* Claims about the tools of the Analyzer *)

\* the session has already run fetch_logs for this page
PageFetched(page) ==
    \E i \in 1..Len(executed) : executed[i].tool = Tool("fetch_logs", page)

\* the result of a Finding is the content of a page of the logs
IsPageContent(result) == result.kind = "page_content"

\* C9: a fetch_logs request for a page already fetched in the session appends
\* one skip Finding, does not run fetch_logs again and leaves the session
\* running; a first request for a page runs fetch_logs, appends the content of
\* the page as its Finding and leaves the session running.
C9_RepeatedPageIsSkipped ==
    [][(/\ Handling
        /\ last_response.tool = "get_info"
        /\ last_response.type = "fetch_logs"
        /\ pc' \notin {"answered", "displaying"})
          => /\ pc' = "running"
             /\ current_findings' # <<>>
             /\ IF PageFetched(last_response.context)
                THEN /\ executed' = executed
                     /\ Last(current_findings').result.kind = "skipped"
                ELSE /\ Len(executed') = Len(executed) + 1
                     /\ Last(executed').tool = Tool("fetch_logs", last_response.context)
                     /\ Last(executed').produced = 1
                     /\ Last(current_findings').type = "fetch_logs"
                     /\ IsPageContent(Last(current_findings').result)]_vars

\* C10: for a file shorter than the 41-line window and any requested line,
\* fetch_code does not raise and the code of its Finding is the whole file.
C10_FetchCodeReturnsWholeFile ==
    /\ pc # "raised"
    /\ \A i \in 1..Len(current_findings) :
          LET f == current_findings[i] IN
          (/\ f.type = "fetch_code"
           /\ f.result.kind = "code"
           /\ FileAt(f.local_path).nlines < 2 * context_lines + 1)
            => f.result.code = readlines(FileAt(f.local_path))

----------------------------------------------------------------------------
(* Claims about the pages of the AnalysisContext *)

\* the index names one of the pages
ValidPageIndex(ctx) == 0 <= ctx.current_page_index /\ ctx.current_page_index < ctx.total_pages

\* C11: total_pages is set at construction and never changes; it is 1 when
\* the input fits in one page and otherwise the ceiling of
\* (len - overlap_size) / (page_size - overlap_size), that is the least n with
\* n * (page_size - overlap_size) >= len - overlap_size; 120,000 characters in
\* pages of 50,000 overlapping by 5,000 make 3 pages.
C11_TotalPagesFormula ==
    /\ [](LET n == page_ctx.total_pages
              stride == page_ctx.page_size - page_ctx.overlap_size
              rest == page_ctx.len - page_ctx.overlap_size
          IN /\ page_ctx.len <= page_ctx.page_size => n = 1
             /\ page_ctx.len > page_ctx.page_size
                    => (n >= 1 /\ n * stride >= rest /\ (n - 1) * stride < rest)
             /\ (page_ctx.len = 120000 /\ page_ctx.page_size = 50000
                    /\ page_ctx.overlap_size = 5000) => n = 3)
    /\ [][page_ctx'.total_pages = page_ctx.total_pages]_vars

C11_Witness ==
    /\ page_ctx.len = 120000
    /\ page_ctx.page_size = 50000
    /\ page_ctx.overlap_size = 5000
    /\ page_ctx.total_pages = 3
    /\ page_op.op = "advance_page"
    /\ page_ctx.current_page_index = 2

\* what C12 says of the page get_current_page returned
PageAsClaimed(ctx, page) ==
    /\ page.text.last - page.text.first = Min(ctx.page_size, ctx.len - page.start)
    /\ ctx.current_page_index > 0
          => (page.start <= window_start(ctx)
              /\ window_start(ctx) - page.start <= ctx.overlap_size)
    /\ 0 <= page.start
    /\ page.start <= ctx.len

\* C12 as stated: for all page_size > overlap_size > 0, every input length and
\* every valid current_page_index, get_current_page returns a substring of
\* length min(page_size, len - start) that begins at most overlap_size before
\* current_page_index * (page_size - overlap_size), with 0 <= start <= len.
C12_PageLengthAndStart ==
    (page_op.op = "get_current_page" /\ ValidPageIndex(page_ctx))
        => PageAsClaimed(page_ctx, page_op.page)

\* C12: the same, for all page_size >= 2 * overlap_size > 0.
C12_PageLengthAndStartWideStride ==
    (/\ page_op.op = "get_current_page"
     /\ ValidPageIndex(page_ctx)
     /\ page_ctx.page_size >= 2 * page_ctx.overlap_size)
        => PageAsClaimed(page_ctx, page_op.page)

\* the last page of an input of several pages, shorter than page_size
C12_Witness ==
    /\ page_op.op = "get_current_page"
    /\ page_ctx.page_size >= 2 * page_ctx.overlap_size
    /\ page_ctx.total_pages >= 3
    /\ page_ctx.current_page_index = page_ctx.total_pages - 1
    /\ page_op.page.start > 0
    /\ page_op.page.text.last - page_op.page.text.first < page_ctx.page_size

\* what C13 says of an advance_page step
AdvanceAsClaimed ==
    page_op'.op = "advance_page"
        => /\ page_ctx'.current_page_index >= page_ctx.current_page_index
           /\ ~page_op'.advanced <=> page_ctx.current_page_index = page_ctx.total_pages - 1

\* C13: current_page_index stays in [0, total_pages) after any advance_page
\* and any fetch_logs(page_number), whatever the page number; advance_page
\* never decreases the index and returns false exactly on the last page.
C13_PageIndexInRange ==
    /\ []ValidPageIndex(page_ctx)
    /\ [][AdvanceAsClaimed]_vars

\* a page that fetch_logs was asked for lies beyond the last page
FetchedBeyondTheLastPage ==
    \E i \in 1..Len(current_findings) :
        /\ current_findings[i].type = "fetch_logs"
        /\ current_findings[i].context = str(page_ctx.total_pages + 1)

\* fetch_logs was asked for a page beyond the last one, and advance_page was
\* then refused on the last of several pages
C13_Witness ==
    /\ page_op.op = "advance_page"
    /\ ~page_op.advanced
    /\ page_ctx.total_pages >= 3
    /\ page_ctx.current_page_index = page_ctx.total_pages - 1
    /\ FetchedBeyondTheLastPage

----------------------------------------------------------------------------
(* Claims about the pages the client has analyzed *)

\* C14: a page number, once in analyzed_pages, stays there for the rest of the
\* session, and analyze_logs adds its page before the API call is made, so
\* the page is recorded while the call is pending and after the call failed.
C14_AnalyzedPagesMonotonic ==
    /\ [][analyzed_pages \subseteq analyzed_pages']_vars
    /\ [](client_call.outcome # "none" => client_call.current_page \in analyzed_pages)

\* a call for page 2 failed after a call for page 1; both pages are recorded
C14_Witness ==
    /\ client_call.outcome = "overloaded_error"
    /\ client_call.current_page = 2
    /\ analyzed_pages = {1, 2}

----------------------------------------------------------------------------
(* Claims about the findings and the failures of a session *)

\* C15: findings are append-only: every step of a session leaves each Finding
\* already in current_findings as it was, field for field, and only adds
\* findings at the end.
C15_FindingsAppendOnly ==
    [][pc # "idle"
          => /\ Len(current_findings') >= Len(current_findings)
             /\ \A i \in 1..Len(current_findings) :
                    current_findings'[i] = current_findings[i]]_vars

\* C16: when an oracle call fails with a rate limit error, analyze_error has
\* slept the 5 s cool-down and the session goes on: analyze has not stopped
\* because of the error and calls the oracle again.
C16_RateLimitErrorIsRetried ==
    last_response.error = RateLimitError
        => (last_response.slept = RateLimitCooldown /\ pc \notin {"returned", "raised"})

\* C17: when an oracle call fails with any other error, the session is not
\* ended by it: analyze goes on to a further oracle call.
C17_GatewayErrorContinues ==
    last_response.error \notin {<<>>, RateLimitError} => pc \notin {"returned", "raised"}

\* the tool asked for by response r fails on the workspace: no usable search
\* pattern or a matching file that cannot be read (fetch_files), a referenced
\* file that is missing or cannot be read (fetch_code)
ToolFails(r) ==
    \/ /\ r.type = "fetch_files"
       /\ \/ search_patterns(r.context) = <<>>
          \/ \E i \in 1..Len(search_patterns(r.context)) :
                 read_errors(search_patterns(r.context)[i]) # <<>>
    \/ /\ r.type = "fetch_code"
       /\ \E i \in 1..Len(file_references(r.context, 1)) :
              code_finding(r.context, file_references(r.context, 1)[i]).shown
                  = "error_fetching_code"

\* C18: a failure inside a tool never escapes analyze and never ends the
\* session: the step that ran the failing tool appended at least one Finding
\* and analyze goes on to the next oracle call.
C18_ToolFailureBecomesFinding ==
    [][(Len(executed') > Len(executed) /\ ToolFails(last_response'))
          => (pc' = "running" /\ Last(executed').produced >= 1)]_vars

----------------------------------------------------------------------------
(* Further claims about get_stack_trace *)

\* the location a get_stack_trace call was asked about
QueriedLocation == CodeLocation(trace_query.file_path, trace_query.line_number, "")

\* C19: get_stack_trace never raises to its caller: whatever the files are
\* (missing, not parsable) the call returns, and when a failure reaches the
\* handler of get_stack_trace itself the trace is exactly one entry, for the
\* queried location, whose context is the error marker.
C19_StackTraceNeverRaises ==
    /\ trace_pc \in {"idle", "returned"}
    /\ (trace_pc = "returned" /\ build_stack_trace_raises(trace_query.max_depth_type))
          => /\ Len(trace) = 1
             /\ trace[1].code_location = QueriedLocation
             /\ trace[1].context.kind = "error_building_stack_trace"

\* a call with max_depth None on a workspace with a file that does not parse
C19_Witness ==
    /\ trace_pc = "returned"
    /\ pyws = Broken
    /\ trace_query.max_depth_type = "NoneType"
    /\ Len(trace) = 1
    /\ trace[1].context = ErrorBuildingStackTrace
\* C20: for max_depth >= 1 and no internal failure the trace is ordered
\* outermost to innermost: its last entry is the queried location, and every
\* other entry is one of the call sites get_callers returns for the entry that
\* follows it.
C20_TraceOutermostFirst ==
    (/\ trace_pc = "returned"
     /\ ~build_stack_trace_raises(trace_query.max_depth_type)
     /\ trace_query.max_depth >= 1)
        => /\ trace # <<>>
           /\ trace[Len(trace)].code_location = QueriedLocation
           /\ \A i \in 1..(Len(trace) - 1) :
                  \E j \in 1..Len(get_callers(trace[i + 1].code_location)) :
                      trace[i].code_location = get_callers(trace[i + 1].code_location)[j]

\* leaf, called from mid, called from main
C20_Witness ==
    /\ trace_pc = "returned"
    /\ pyws = Chain
    /\ trace_query.max_depth_type = "int"
    /\ trace_query.max_depth >= 3
    /\ Len(trace) = 3
    /\ trace[3].code_location = QueriedLocation
    /\ trace[1].code_location.function_name = "main"

----------------------------------------------------------------------------
(* Claims about Analyzer._translate_path *)

\* the path as it is when absolute, joined to the workspace root otherwise
Untranslated(path) == IF IsAbs(path) THEN path ELSE join(workspace_root, path)

\* C21: for every input path _translate_path returns a non-empty sequence
\* whose last element is the untranslated path (surrounding whitespace aside):
\* the path itself if it is absolute, workspace_root joined with it otherwise;
\* every translated guess precedes it.
C21_LastIsTheUntranslatedPath ==
    translation.called
        => /\ ~translation.raised
           /\ translation.possible_paths # <<>>
           /\ Last(translation.possible_paths)
                  = Untranslated(strip(translation.production_path))

----------------------------------------------------------------------------
(* Claims about construction *)

\* C22: constructing the Analyzer does not raise when no credential is stored
\* at ~/.traceback/api_key; only the oracle is unavailable.
C22_AnalyzerBuiltWithoutCredential ==
    (construction.built = "Analyzer" /\ load_api_key(construction.api_key_file) = <<>>)
        => (~construction.raised /\ ~construction.claude_available)

----------------------------------------------------------------------------
(* Further claims about the answers of the oracle *)

\* C23: a plain-text answer with no action is commentary: no step that
\* handles it ends the session or runs a tool.
C23_PlainTextIsCommentary ==
    [][(Handling /\ last_response = NoToolUse)
          => (pc' \in {"displaying", "running"} /\ state' = "RUNNING"
              /\ executed' = executed)]_vars

----------------------------------------------------------------------------
(* Claims about the rate limit across clients *)

\* C24: the calls of the API in the process follow one discipline: under every
\* interleaving of the clients no two calls start less than the minimum
\* spacing (200 ms) apart, and no call starts while a RateLimitState of the
\* process has requests_remaining <= 0 and a reset time still ahead.
C24_CallsOfAllClientsAreSpaced ==
    /\ \A i, j \in 1..Len(api_calls) :
          i < j => api_calls[j].at - api_calls[i].at >= MinSpacing
    /\ \A i \in 1..Len(api_calls) : ~api_calls[i].quota_known_exhausted

----------------------------------------------------------------------------
(* Claims about AnalysisTools.get_callers *)

\* the file a location names, as a sequence of zero or one file
QueriedFile == SelectSeq(pyws, LAMBDA f : f.path = trace_query.file_path)

\* the function the resolver takes to enclose the queried location, or ""
QueriedFunction ==
    IF QueriedFile = <<>> \/ ~QueriedFile[1].parses THEN ""
    ELSE target_func(QueriedFile[1], trace_query.line_number)

\* the call expressions of the workspace whose callee is named name
CallsNaming(name) ==
    UNION {{<<pyws[i].path, pyws[i].calls[k].lineno>> :
               k \in {n \in 1..Len(pyws[i].calls) : pyws[i].calls[n].func = name}} :
           i \in {n \in 1..Len(pyws) : pyws[n].parses}}

\* C25: once a call has resolved the function enclosing the queried location,
\* get_callers returns one entry for every call expression of the workspace
\* that names this function, whatever function the call site targets.
C25_EveryCallNamingTheFunctionIsReturned ==
    (trace_pc = "returned" /\ QueriedFunction # "")
        => \A site \in CallsNaming(QueriedFunction) :
              Cardinality({j \in 1..Len(get_callers(QueriedLocation)) :
                              /\ get_callers(QueriedLocation)[j].file_path = site[1]
                              /\ get_callers(QueriedLocation)[j].line_number = site[2]}) = 1

----------------------------------------------------------------------------
(* Further claims about RateLimitState *)

\* the states in which should_rate_limit is to answer True
ThrottleDue(r, t) ==
    \/ r.requests_remaining <= 0 /\ r.has_reset /\ t < r.reset_time
    \/ t - r.last_request_time < MinSpacing

\* wait_if_needed has made its first test of should_rate_limit, on the state
\* and at the time kept in rl_call
FirstTestMade == rl_pc \in {"sleeping", "returned", "raised"} /\ rl_naps = <<>>

\* C26: should_rate_limit returns a boolean in every state: True exactly when
\* the quota is used up with a reset time ahead or the last request is less
\* than the minimum spacing ago, and False otherwise.
C26_ShouldRateLimitIsBoolean ==
    FirstTestMade
        => /\ rl_pc # "raised"
           /\ rl_pc = "sleeping" <=> ThrottleDue(rl_call.rl, rl_call.now)

\* C27: when a sleep inside wait_if_needed ends at or after the reset time,
\* requests_remaining is back at the default of 50 and reset_time is cleared
\* before the loop tests again, hence before wait_if_needed returns.
C27_QuotaResetOnCrossingTheBoundary ==
    (/\ rl_pc \in {"sleeping", "returned", "raised"}
     /\ rl_naps # <<>>
     /\ rl_call.rl.has_reset
     /\ now >= rl_call.rl.reset_time)
        => /\ rl.requests_remaining = DefaultRequests
           /\ ~rl.has_reset
           /\ rl.reset_time = 0

\* wait_if_needed was called with one request left before the reset time,
\* slept, woke exactly at the reset time and returned
C27_Witness ==
    /\ rl_pc = "returned"
    /\ rl_naps # <<>>
    /\ rl_call.rl.has_reset
    /\ rl_call.rl.requests_remaining = 1
    /\ rl_call.now < rl_call.rl.reset_time
    /\ now = rl_call.rl.reset_time
    /\ rl.requests_remaining = DefaultRequests
    /\ rl.reset_time = 0

----------------------------------------------------------------------------
(* Further claims about the tools of the Analyzer *)

\* C28: fetch_code for a line n within the file reads 20 lines on each side
\* of n: the code of its Finding is exactly the lines max(1, n - 20) through
\* min(file length, n + 20).
C28_WindowOfTwentyLinesEachSide ==
    \A i \in 1..Len(current_findings) :
        LET f == current_findings[i] IN
        (/\ f.type = "fetch_code"
         /\ f.result.kind = "code"
         /\ 1 <= f.result.line
         /\ f.result.line <= FileAt(f.local_path).nlines)
          => f.result.code =
                SubSeq(readlines(FileAt(f.local_path)),
                       Max(1, f.result.line - context_lines),
                       Min(FileAt(f.local_path).nlines, f.result.line + context_lines))

----------------------------------------------------------------------------
(* Claims about the trace get_stack_trace selects *)

\* the paths the depth-first exploration finds for the queried location, in
\* the order it finds them
DiscoveredTraces ==
    build_stack_trace(QueriedLocation, 0, {}, trace_query.max_depth)

\* a call that explored the callers and returned the trace it selected
Explored ==
    /\ trace_pc = "returned"
    /\ ~build_stack_trace_raises(trace_query.max_depth_type)

\* C29: the returned trace is one of the discovered paths, no discovered path
\* is longer, and every path discovered before it is strictly shorter.
C29_LongestTraceFirstOfTies ==
    Explored
        => \E i \in 1..Len(DiscoveredTraces) :
              /\ trace = DiscoveredTraces[i]
              /\ \A j \in 1..Len(DiscoveredTraces) :
                    Len(DiscoveredTraces[j]) <= Len(trace)
              /\ \A j \in 1..(i - 1) : Len(DiscoveredTraces[j]) < Len(trace)

\* leaf is reached from main through mid and through alt: two paths of the
\* same length, and the one through mid, found first, is returned
C29_Witness ==
    /\ Explored
    /\ pyws = Chain
    /\ Len(DiscoveredTraces) = 2
    /\ Len(DiscoveredTraces[1]) = 3
    /\ Len(DiscoveredTraces[2]) = 3
    /\ DiscoveredTraces[1] # DiscoveredTraces[2]
    /\ trace = DiscoveredTraces[1]
    /\ trace[2].code_location.function_name = "mid"

----------------------------------------------------------------------------
(* Claims about the enclosing function of a location *)

\* the function definitions of the queried file whose line range holds the
\* queried line
EnclosingDefs ==
    {d \in {QueriedFile[1].defs[k] : k \in 1..Len(QueriedFile[1].defs)} :
        d.lineno <= trace_query.line_number /\ trace_query.line_number <= d.end_lineno}

\* the innermost of them: the one no other enclosing definition starts inside
InnermostDef == CHOOSE d \in EnclosingDefs : \A e \in EnclosingDefs : e.lineno <= d.lineno

\* C30: for a location in a file that parses, the function resolved as
\* enclosing it is the innermost definition whose line range holds the line
\* (the nested function, for a line of a function nested in another); for a
\* line outside every function no function is resolved and get_callers
\* returns the empty sequence.
C30_InnermostFunctionIsResolved ==
    (trace_pc = "returned" /\ QueriedFile # <<>> /\ QueriedFile[1].parses)
        => IF EnclosingDefs = {}
           THEN QueriedFunction = "" /\ get_callers(QueriedLocation) = <<>>
           ELSE QueriedFunction = InnermostDef.name

----------------------------------------------------------------------------
(* Claims about the analysis the oracle carries from call to call *)

\* C31: every oracle call of a session after the first is given, as its
\* current analysis, the current analysis the previous response returned.
C31_MemoIsCarriedForward ==
    [][(oracle_calls >= 1 /\ oracle_calls' = oracle_calls + 1)
          => memo'.given = memo.returned]_vars

----------------------------------------------------------------------------
(* Claims about the order of events in an iteration *)

\* the thread is inside claude.analyze_error: asleep in wait_if_needed, waiting
\* for the answer to its request, or asleep in the exception handler
InOracleCall == pc \in {"sleeping", "requesting", "cooling"}

\* C32: the events of an iteration come in one order.  The request to the
\* oracle is sent only in the step in which wait_if_needed returned, by a
\* thread that was at the top of analyze or asleep in wait_if_needed; it is
\* over only for a thread that was waiting for it; the result of an oracle
\* call is received once, by a thread at line 568 or inside the call, and no
\* tool runs in that step; a tool ends only while the result is handled, it is
\* the one tool of the latest oracle call, and while the thread is inside
\* analyze_error every tool has ended.
C32_EventsOfAnIterationInOrder ==
    /\ [][/\ pc' = "requesting"
              => /\ pc \in {"running", "sleeping"}
                 /\ rl_pc' = "returned"
                 /\ api_calls' = api_calls
                 /\ oracle_calls' = oracle_calls
          /\ api_calls' # api_calls
              => /\ pc = "requesting"
                 /\ Len(api_calls') = Len(api_calls) + 1
          /\ oracle_calls' # oracle_calls
              => /\ oracle_calls' = oracle_calls + 1
                 /\ pc = "running" \/ InOracleCall
                 /\ pc' = "answered"
                 /\ executed' = executed
          /\ executed' # executed
              => /\ pc \in {"answered", "displaying"}
                 /\ Len(executed') = Len(executed) + 1
                 /\ Len(executed') = oracle_calls
                 /\ oracle_calls' = oracle_calls
                 /\ pc' \in {"running", "raised"}]_vars
    /\ [](InOracleCall => Len(executed) = oracle_calls)

\* a session whose first iteration waited, sent its request, got the answer and
\* ran a tool, and whose second iteration slept in wait_if_needed
C32_Witness ==
    /\ pc = "returned"
    /\ oracle_calls = 2
    /\ Len(api_calls) = 1
    /\ Len(executed) = 1
    /\ rl_naps # <<>>

----------------------------------------------------------------------------
(* Further claims about Analyzer._translate_path *)

\* C33: for a path that begins with '/app/' the first candidate is the
\* workspace root joined with the path without its leading '/app/', and
\* without anything else removed.
C33_AppPrefixAloneIsRemoved ==
    (translation.called /\ StartsWith(strip(translation.production_path), AppPrefix))
        => /\ ~translation.raised
           /\ translation.possible_paths # <<>>
           /\ translation.possible_paths[1]
                 = join(workspace_root,
                        SubSeq(strip(translation.production_path), Len(AppPrefix) + 1,
                               Len(strip(translation.production_path))))

----------------------------------------------------------------------------
(* Claims about what the pages cover *)

\* the page with index idx of the context, as the positions first..last-1
PageOf(ctx, idx) == get_current_page([ctx EXCEPT !.current_page_index = idx]).text

\* position pos of all_input lies in one of the pages 0..total_pages-1
InSomePage(ctx, pos) ==
    \E idx \in 0..(ctx.total_pages - 1) :
        PageOf(ctx, idx).first <= pos /\ pos < PageOf(ctx, idx).last

\* where the pages end: the end of the window of the last page
CoveredUpTo(ctx) ==
    IF ctx.total_pages = 1 THEN ctx.len
    ELSE Min(ctx.len, ctx.total_pages * (ctx.page_size - ctx.overlap_size))

\* The positions looked at: all of them for the short inputs; for a long input
\* the positions next to the ends of the pages and of the input, since a
\* position is in the same pages as its neighbour everywhere else.
Positions(ctx) ==
    IF ctx.len <= MaxInputLen + 1 THEN 0..(ctx.len - 1)
    ELSE (0..(ctx.len - 1)) \cap
         ({0, ctx.len - 1, CoveredUpTo(ctx) - 1, CoveredUpTo(ctx)}
          \cup UNION {{PageOf(ctx, idx).first - 1, PageOf(ctx, idx).first,
                       PageOf(ctx, idx).last - 1, PageOf(ctx, idx).last} :
                      idx \in 0..(ctx.total_pages - 1)})

\* C34: for all page_size > overlap_size > 0 and every input length every
\* position of all_input lies in at least one of the pages.
C34_PagesCoverTheInput ==
    \A pos \in Positions(page_ctx) : InSomePage(page_ctx, pos)

----------------------------------------------------------------------------
(* Claims about how deep get_stack_trace explores *)

\* a get_stack_trace call with a number for max_depth has returned
ExploredTo(max_depth) ==
    /\ trace_pc = "returned"
    /\ trace_query.max_depth_type = "int"
    /\ trace_query.max_depth = max_depth

\* C35: for every max_depth >= 1, whatever the start location and the call
\* graph, the trace get_stack_trace returns has at least one entry and at most
\* max_depth entries.
C35_TraceHasOneToMaxDepthEntries ==
    \A max_depth \in 1..DefaultMaxDepth :
        ExploredTo(max_depth) => (1 <= Len(trace) /\ Len(trace) <= max_depth)

\* the exploration was cut at max_depth = 2: the default depth finds more
C35_Witness ==
    /\ ExploredTo(2)
    /\ Len(trace) = 2
    /\ Len(get_stack_trace(QueriedLocation, DefaultMaxDepth)) = 3

\* the call sites of the workspace: the calls of its parsable files that name
\* a function
CallSites ==
    UNION {{location_key(CodeLocation(pyws[i].path, pyws[i].calls[j].lineno, "")) :
                j \in {k \in 1..Len(pyws[i].calls) : pyws[i].calls[k].func_type = "Name"}} :
           i \in {k \in 1..Len(pyws) : pyws[k].parses}}

\* C36: with the default max_depth, far above every depth a workspace here
\* can reach, get_stack_trace returns on every workspace, cyclic ones
\* included; every entry of the trace but the start location is a call site
\* the exploration entered, no call site is entered twice, and so the trace has
\* at most one entry more than there are call sites.
C36_CyclesEndWithoutTheDepthLimit ==
    ExploredTo(DefaultMaxDepth)
        => /\ \A i \in 1..(Len(trace) - 1) :
                 location_key(trace[i].code_location) \in CallSites
           /\ \A i, j \in 1..(Len(trace) - 1) :
                 i < j => location_key(trace[i].code_location)
                             # location_key(trace[j].code_location)
           /\ Len(trace) <= Cardinality(CallSites) + 1

\* a call graph with a cycle, explored from a call site of the cycle: the
\* exploration enters that call site once more and stops there
C36_Witness ==
    /\ ExploredTo(DefaultMaxDepth)
    /\ pyws \in {SelfRecursive, MutualRecursion}
    /\ Len(trace) >= 2
    /\ location_key(trace[1].code_location) = location_key(QueriedLocation)

----------------------------------------------------------------------------
(* Claims about the two checks for repetition *)

Untagged(finding) == [finding EXCEPT !.tool_executed = NoTool]

\* the session began with a context that held no Finding
FreshSession == pc # "idle" /\ initial_findings = <<>>

    /\ pc = "running"
    /\ \E i \in 1..(Len(current_findings) - 1) :
          /\ current_findings[i] # Last(current_findings)
          /\ Untagged(current_findings[i]) = Untagged(Last(current_findings))

----------------------------------------------------------------------------
(* Claims about the end of wait_if_needed *)

\* a call of wait_if_needed has begun and the clock has not moved on since it
\* slept, returned or raised
InWaitIfNeeded == rl_pc \in {"sleeping", "returned", "raised"}

\* C38: wait_if_needed always comes to an end by returning, and it sleeps at
\* most once before it does: no call ends by raising, after one sleep the call
\* has returned, and no call sleeps a second time.
C38_ReturnsAfterAtMostOneSleep ==
    InWaitIfNeeded
        => /\ rl_pc # "raised"
           /\ Len(rl_naps) <= 1
           /\ Len(rl_naps) = 1 => rl_pc = "returned"

====
